---------------------------- MODULE Spec2Model ----------------------------
(***************************************************************************)
(* liasiondb: the in-memory knowledge graph of src/src/main.rs.            *)
(*                                                                         *)
(* Text (String) is a sequence of one-character strings, so that split,    *)
(* join and the "FILE: " / "DIR: " prefixes are computed as the code       *)
(* computes them.  Node indices are 0-based as in the code: the node with  *)
(* index i is node_table[i + 1].                                           *)
(***************************************************************************)
EXTENDS Integers, Sequences, FiniteSets, TLC

VARIABLES
    node_table,   \* KnowledgeBase.node_table : IndexSet<Node>
    edge_table,   \* KnowledgeBase.edge_table : BTreeMap<(usize, usize), Edge>
    ref_table,    \* KnowledgeBase.ref_table  : BTreeMap<(usize, usize), Edge>
    hist,         \* the calls made so far, each with its arguments and result
    ledger_file,  \* the content of {file_dir}/.ledger
    disk,         \* the content files under file_dir, by path
    reqs,         \* the requests in flight, by id: handler, arguments, position
    lock          \* AppState.kb : RwLock, its writer and its readers

vars == <<node_table, edge_table, ref_table, hist, ledger_file, disk, reqs, lock>>

----------------------------------------------------------------------------
(* Bounds of the model                                                     *)

MaxOps == 3        \* calls per behaviour
MaxLines == 2      \* lines per generated document
MaxVersion == 1    \* versions are 0..MaxVersion
MaxIdx == 2        \* arbitrary tables range over the indices 0..MaxIdx
MaxEdges == 3      \* entries of an arbitrary pair of tables
MaxRevisions == 3  \* ingestions of one file in a history of revisions
MaxLedger == 2     \* entries of a ledger as loaded
MaxRead == 3       \* indices handed to one add_nodes
MaxRequests == 3   \* requests the server accepts in a behaviour
MaxClients == 2    \* requests in flight at a time

----------------------------------------------------------------------------
(* Text                                                                    *)

NL == "\n"

FilePrefix == <<"F", "I", "L", "E", ":", " ">>

DirPrefix == <<"D", "I", "R", ":", " ">>

RECURSIVE SplitFrom(_, _, _)
\* str::split('\n'): the pieces between the separators, empty ones included
SplitFrom(s, i, cur) ==
    IF i > Len(s) THEN <<cur>>
    ELSE IF s[i] = NL THEN <<cur>> \o SplitFrom(s, i + 1, <<>>)
    ELSE SplitFrom(s, i + 1, Append(cur, s[i]))

Split(s) == SplitFrom(s, 1, <<>>)

RECURSIVE Join(_)
\* [String]::join("\n")
Join(parts) ==
    IF parts = <<>> THEN <<>>
    ELSE IF Len(parts) = 1 THEN parts[1]
    ELSE parts[1] \o <<NL>> \o Join(Tail(parts))

\* a segmentation that keeps the empty pieces
KeepsEmptyLines(parts) == parts

\* .filter(|line| !line.is_empty())
NonEmpty(parts) == SelectSeq(parts, LAMBDA l : l # <<>>)

\* str::starts_with
StartsWith(s, p) == Len(s) >= Len(p) /\ SubSeq(s, 1, Len(p)) = p

----------------------------------------------------------------------------
(* Identity model                                                          *)

NewNode(content, filename) == [content |-> content, filename |-> filename]

NewEdge(version, tag) == [version |-> version, tag |-> tag]

\* a store that appends without looking the node up
IndexSetInsertAlways(nt, node) == Append(nt, node)

\* a store that puts a new node in front, renumbering the others
IndexSetInsertFront(nt, node) ==
    IF \E i \in 1..Len(nt) : nt[i] = node THEN nt ELSE <<node>> \o nt

\* IndexSet::insert: appends unless an equal node is present
IndexSetInsert(nt, node) ==
    IF \E i \in 1..Len(nt) : nt[i] = node THEN nt ELSE Append(nt, node)

\* an index counted from 1
GetIndexOfFromOne(nt, node) == CHOOSE i \in 1..Len(nt) : nt[i] = node

\* IndexSet::get_index_of(..).unwrap() of a node that is present
GetIndexOf(nt, node) == (CHOOSE i \in 1..Len(nt) : nt[i] = node) - 1

\* IndexSet::get_index_of as an Option: the set of indices holding the node
IndexOf(nt, node) == {i \in 0..(Len(nt) - 1) : nt[i + 1] = node}

\* a table whose insert overwrites the entry of a present key
OrInsertOverwrites(tbl, key, edge) ==
    [k \in DOMAIN tbl \cup {key} |-> IF k = key THEN edge ELSE tbl[k]]

\* BTreeMap::entry(key).or_insert_with(..)
OrInsert(tbl, key, edge) ==
    IF key \in DOMAIN tbl THEN tbl ELSE tbl @@ (key :> edge)

EmptyTable == [k \in {} |-> NewEdge(0, <<>>)]

Kb(nt, et, rt) == [node_table |-> nt, edge_table |-> et, ref_table |-> rt]

----------------------------------------------------------------------------
(* Ledger                                                                  *)

RECURSIVE DedupAdjacent(_, _, _)
\* a scan that drops an element only when it repeats the one just before it
DedupAdjacent(s, i, seen) ==
    IF i > Len(s) THEN <<>>
    ELSE IF i > 1 /\ s[i] = s[i - 1] THEN DedupAdjacent(s, i + 1, seen)
    ELSE <<s[i]>> \o DedupAdjacent(s, i + 1, seen)

RECURSIVE Retain(_, _, _)
\* node_indices.retain(|&x| seen.insert(x)) over s[i..]: an element is kept
\* when the set did not hold it yet
Retain(s, i, seen) ==
    IF i > Len(s) THEN <<>>
    ELSE IF s[i] \in seen THEN Retain(s, i + 1, seen)
    ELSE <<s[i]>> \o Retain(s, i + 1, seen \cup {s[i]})

\* a ledger that keeps the indices of the last read only
AddNodesOfLastRead(node_indices, nodes) == Retain(nodes, 1, {})

\* Ledger::add_nodes: the node_indices after the call
AddNodes(node_indices, nodes) == Retain(node_indices \o nodes, 1, {})

\* the content of the ledger file: none, the JSON of a Ledger, anything else
NoFile == [kind |-> "absent", node_indices |-> <<>>]

Garbage == [kind |-> "garbage", node_indices |-> <<>>]

\* serde_json::to_string_pretty(&ledger)
LedgerJson(node_indices) == [kind |-> "json", node_indices |-> node_indices]

----------------------------------------------------------------------------
(* KnowledgeBase: mutations                                                *)

DirNode(directory_path) == NewNode(DirPrefix \o directory_path, <<>>)

FileNode(filename) == NewNode(FilePrefix \o filename, filename)

\* insert_directory: the store after the call, and the index returned
InsertDirectory(kb, directory_path) ==
    LET nt == IndexSetInsert(kb.node_table, DirNode(directory_path))
    IN  [kb |-> Kb(nt, kb.edge_table, kb.ref_table),
         ret |-> GetIndexOf(nt, DirNode(directory_path))]

\* insert_node
InsertNode(kb, content, filename) ==
    LET nt == IndexSetInsert(kb.node_table, NewNode(content, filename))
    IN  [kb |-> Kb(nt, kb.edge_table, kb.ref_table),
         ret |-> GetIndexOf(nt, NewNode(content, filename))]

\* content nodes that do not carry the filename
ContentNodesOfNoFile(markdown_content, filename) ==
    LET lines == NonEmpty(Split(markdown_content))
    IN  [i \in 1..Len(lines) |-> NewNode(lines[i], <<>>)]

\* content nodes made of every line, the empty ones as well
ContentNodesWithEmpty(markdown_content, filename) ==
    LET lines == Split(markdown_content)
    IN  [i \in 1..Len(lines) |-> NewNode(lines[i], filename)]

\* the content nodes of a document: one per non-empty line
ContentNodes(markdown_content, filename) ==
    LET lines == NonEmpty(Split(markdown_content))
    IN  [i \in 1..Len(lines) |-> NewNode(lines[i], filename)]

\* a window loop that records no index
RecordsNever(is_new) == FALSE

\* Whether the window loop records to_idx: the node was new to the store
RecordsNew(is_new) == is_new

RECURSIVE WindowLoopLinksNew(_, _, _, _, _)
\* a window loop that links a line only when its node is new to the store
WindowLoopLinksNew(st, content_nodes, i, version, tag) ==
    IF i >= Len(content_nodes) THEN st
    ELSE LET from_node == content_nodes[i]
             to_node == content_nodes[i + 1]
             is_new == \A j \in 1..Len(st.nt) : st.nt[j] # to_node
             nt == IndexSetInsert(st.nt, to_node)
             from_idx == GetIndexOf(nt, from_node)
             to_idx == GetIndexOf(nt, to_node)
             new == IF RecordsNew(is_new) THEN Append(st.new, to_idx) ELSE st.new
             et == IF is_new THEN OrInsert(st.et, <<from_idx, to_idx>>, NewEdge(version, tag)) ELSE st.et
         IN  WindowLoopLinksNew([nt |-> nt, et |-> et, new |-> new],
                                content_nodes, i + 1, version, tag)

RECURSIVE WindowLoop(_, _, _, _, _)
\* for window in content_nodes.windows(2): st = [nt, et, new]
WindowLoop(st, content_nodes, i, version, tag) ==
    IF i >= Len(content_nodes) THEN st
    ELSE LET from_node == content_nodes[i]
             to_node == content_nodes[i + 1]
             is_new == \A j \in 1..Len(st.nt) : st.nt[j] # to_node
             nt == IndexSetInsert(st.nt, to_node)
             from_idx == GetIndexOf(nt, from_node)
             to_idx == GetIndexOf(nt, to_node)
             new == IF RecordsNew(is_new) THEN Append(st.new, to_idx) ELSE st.new
             et == OrInsert(st.et, <<from_idx, to_idx>>, NewEdge(version, tag))
         IN  WindowLoop([nt |-> nt, et |-> et, new |-> new],
                        content_nodes, i + 1, version, tag)

RECURSIVE InnerRefLoop(_, _, _, _, _, _)
\* for to_idx in new_node_indices
InnerRefLoop(rt, from_idx, new, j, version, tag) ==
    IF j > Len(new) THEN rt
    ELSE InnerRefLoop(OrInsert(rt, <<from_idx, new[j]>>, NewEdge(version, tag)),
                      from_idx, new, j + 1, version, tag)

RECURSIVE RefLoop(_, _, _, _, _, _)
\* for reference_node in reference_nodes: st = [nt, rt]
RefLoop(st, reference_nodes, k, new, version, tag) ==
    IF k > Len(reference_nodes) THEN st
    ELSE LET nt == IndexSetInsert(st.nt, reference_nodes[k])
             from_idx == GetIndexOf(nt, reference_nodes[k])
             rt == InnerRefLoop(st.rt, from_idx, new, 1, version, tag)
         IN  RefLoop([nt |-> nt, rt |-> rt], reference_nodes, k + 1,
                     new, version, tag)

\* insert_markdown: the store after the call, the index returned, and the
\* new_node_indices it collected
InsertMarkdown(kb, markdown_content, filename, parent_idx, reference_nodes, version, tag) ==
    LET file_node == FileNode(filename)
        nt1 == IndexSetInsert(kb.node_table, file_node)
        file_idx == GetIndexOf(nt1, file_node)
        et1 == OrInsert(kb.edge_table, <<parent_idx, file_idx>>,
                        NewEdge(version, tag))
        content_nodes == ContentNodes(markdown_content, filename)
    IN  IF content_nodes = <<>>
        THEN [kb |-> Kb(nt1, et1, kb.ref_table), ret |-> file_idx, new |-> <<>>]
        ELSE LET nt2 == IndexSetInsert(nt1, content_nodes[1])
                 first_content_idx == GetIndexOf(nt2, content_nodes[1])
                 et2 == OrInsert(et1, <<file_idx, first_content_idx>>,
                                 NewEdge(version, tag))
                 w == WindowLoop([nt |-> nt2, et |-> et2,
                                  new |-> <<first_content_idx>>],
                                 content_nodes, 1, version, tag)
                 r == RefLoop([nt |-> w.nt, rt |-> kb.ref_table],
                              reference_nodes, 1, w.new, version, tag)
             IN  [kb |-> Kb(r.nt, w.et, r.rt), ret |-> file_idx, new |-> w.new]

----------------------------------------------------------------------------
(* KnowledgeBase: queries                                                  *)

RECURSIVE Ascending(_)
\* the elements of a finite set of numbers in ascending order (BTreeMap order)
Ascending(S) ==
    IF S = {} THEN <<>>
    ELSE LET m == CHOOSE x \in S : \A y \in S : x <= y
         IN  <<m>> \o Ascending(S \ {m})

\* edge_table.range((idx, MIN)..(idx + 1, MIN)): the destinations of the
\* entries whose source is idx, in ascending order
RangeFrom(tbl, idx) == Ascending({k[2] : k \in {q \in DOMAIN tbl : q[1] = idx}})

\* a scan that keeps the earlier element when two keys are equal
KeepsEarlier(best_version, version) == version > best_version

\* Iterator::max_by_key keeps the later element when two keys are equal
KeepsLater(best_version, version) == version >= best_version

\* a choice of the first entry of the range, whatever its version
FirstOfRange(tbl, idx, dests, i, best) == dests[1]

RECURSIVE MaxByVersion(_, _, _, _, _)
\* .max_by_key(|(_, edge)| edge.version) over the range of idx: the
\* destination kept after scanning dests[i..]
MaxByVersion(tbl, idx, dests, i, best) ==
    IF i > Len(dests) THEN best
    ELSE IF KeepsLater(tbl[<<idx, best>>].version, tbl[<<idx, dests[i]>>].version)
         THEN MaxByVersion(tbl, idx, dests, i + 1, dests[i])
         ELSE MaxByVersion(tbl, idx, dests, i + 1, best)

\* next_edge: the set holding the destination chosen, empty for None
NextEdge(tbl, idx) ==
    LET dests == RangeFrom(tbl, idx)
    IN  IF dests = <<>> THEN {} ELSE {MaxByVersion(tbl, idx, dests, 2, dests[1])}

RECURSIVE Walk(_, _, _)
\* the loop of traverse_latest_path.  The step taken from an index depends
\* on the index alone, so a walk that comes back to an index it has pushed
\* never leaves the loop: returns = FALSE, path = the indices pushed until
\* the first repetition.
Walk(tbl, path, current_idx) ==
    LET pushed == Append(path, current_idx)
        next == NextEdge(tbl, current_idx)
    IN  IF next = {} THEN [returns |-> TRUE, path |-> pushed]
        ELSE LET to_idx == CHOOSE d \in next : TRUE
             IN  IF \E i \in 1..Len(pushed) : pushed[i] = to_idx
                 THEN [returns |-> FALSE, path |-> pushed]
                 ELSE Walk(tbl, pushed, to_idx)

\* traverse_latest_path
TraverseLatestPath(kb, start_idx) == Walk(kb.edge_table, <<>>, start_idx)

\* a search that follows structural edges as well
ContaminationTableWithStructural(kb) == kb.edge_table @@ kb.ref_table

\* The table find_contaminated_nodes ranges over
ContaminationTable(kb) == kb.ref_table

RECURSIVE PushUnvisited(_, _, _)
\* the inner for loop of a search: st = [visited, queue], over cands[i..]
PushUnvisited(st, cands, i) ==
    IF i > Len(cands) THEN st
    ELSE IF cands[i] \in st.visited THEN PushUnvisited(st, cands, i + 1)
    ELSE PushUnvisited([visited |-> st.visited \cup {cands[i]},
                        queue |-> Append(st.queue, cands[i])], cands, i + 1)

RECURSIVE ContaminatedLoop(_, _, _)
\* while let Some(current_idx) = queue.pop_front()
ContaminatedLoop(tbl, st, contaminated) ==
    IF st.queue = <<>> THEN contaminated
    ELSE LET current_idx == Head(st.queue)
             popped == [visited |-> st.visited, queue |-> Tail(st.queue)]
         IN  ContaminatedLoop(tbl,
                 PushUnvisited(popped, RangeFrom(tbl, current_idx), 1),
                 Append(contaminated, current_idx))

\* a search that does not mark its start as visited
FindContaminatedNodesFromUnvisited(kb, start_idx) ==
    ContaminatedLoop(ContaminationTable(kb),
                     [visited |-> {}, queue |-> <<start_idx>>], <<>>)

\* find_contaminated_nodes
FindContaminatedNodes(kb, start_idx) ==
    ContaminatedLoop(ContaminationTable(kb),
                     [visited |-> {start_idx}, queue |-> <<start_idx>>], <<>>)

\* a backward search that follows the edges forward
SourcesToForward(tbl, idx) == RangeFrom(tbl, idx)

\* ref_table.iter() filtered by to_idx == idx: the sources, ascending
SourcesTo(tbl, idx) == Ascending({k[1] : k \in {q \in DOMAIN tbl : q[2] = idx}})

RECURSIVE ReferencedLoop(_, _, _)
ReferencedLoop(tbl, st, referenced) ==
    IF st.queue = <<>> THEN referenced
    ELSE LET current_idx == Head(st.queue)
             popped == [visited |-> st.visited, queue |-> Tail(st.queue)]
         IN  ReferencedLoop(tbl,
                 PushUnvisited(popped, SourcesTo(tbl, current_idx), 1),
                 Append(referenced, current_idx))

\* find_referenced_nodes
FindReferencedNodes(kb, start_idx) ==
    ReferencedLoop(kb.ref_table,
                   [visited |-> {start_idx}, queue |-> <<start_idx>>], <<>>)

\* node_count
NodeCount(kb) == Len(kb.node_table)

\* a count of the edges of both tables
EdgeCountWithReferences(kb) == Cardinality(DOMAIN kb.edge_table) + Cardinality(DOMAIN kb.ref_table)

\* edge_count
EdgeCount(kb) == Cardinality(DOMAIN kb.edge_table)

\* a read that gives an empty document for a file it does not find
ReadFileOrEmpty(kb, filename) == [found |-> TRUE, returns |-> TRUE, markdown |-> <<>>, node_indices |-> <<>>]

\* read_file: found = FALSE is None; returns = FALSE is a call whose
\* traversal never returns
ReadFile(kb, filename) ==
    LET at == IndexOf(kb.node_table, FileNode(filename))
    IN  IF at = {}
        THEN [found |-> FALSE, returns |-> TRUE, markdown |-> <<>>, node_indices |-> <<>>]
        ELSE LET file_idx == CHOOSE i \in at : TRUE
                 t == TraverseLatestPath(kb, file_idx)
                 rest == SelectSeq(Tail(t.path), LAMBDA idx : idx < Len(kb.node_table))
             IN  [found |-> TRUE,
                  returns |-> t.returns,
                  markdown |-> Join([i \in 1..Len(rest) |-> kb.node_table[rest[i] + 1].content]),
                  node_indices |-> rest]

----------------------------------------------------------------------------
(* Inputs                                                                  *)

Filenames == {<<"f">>, <<"g">>}

DirPaths == {<<"d", "o", "c", "s">>, <<".">>}

Lines == {<<>>, <<"A">>, <<"B">>}

\* every text of 1..MaxLines lines over Lines, empty lines included
GeneratedTexts == {Join(ls) : ls \in UNION {[1..n -> Lines] : n \in 1..MaxLines}}

\* two versions of one document that differ in their last line
DivergingTexts == {Join(<<<<"A">>, <<"B">>, <<"C">>>>), Join(<<<<"A">>, <<"B">>, <<"D">>>>)}

\* a document whose only line reads as the file marker of "f"
MarkerTexts == {FilePrefix \o <<"f">>}

Texts == GeneratedTexts \cup MarkerTexts

Versions == 0..MaxVersion

Tags == {"version-0", "version-1"}

\* reference_nodes: none, an annotation, a content node of file "f"
ReferenceLists == {<<>>, <<NewNode(<<"r">>, <<>>)>>, <<NewNode(<<"A">>, <<"f">>)>>}

NodeContents == {<<"A">>, <<"r">>}

NodeFilenames == Filenames \cup {<<>>}

\* the indices of the directory nodes of a node table
DirIndices(nt) == {i \in 0..(Len(nt) - 1) : StartsWith(nt[i + 1].content, DirPrefix) /\ nt[i + 1].filename = <<>>}

----------------------------------------------------------------------------
(* The knowledge base as a state machine                                   *)

CurKb == Kb(node_table, edge_table, ref_table)

Call(op, args, ret) == [op |-> op, args |-> args, ret |-> ret]

\* the store becomes kb and the call is logged
Becomes(kb, call) ==
    /\ node_table' = kb.node_table
    /\ edge_table' = kb.edge_table
    /\ ref_table' = kb.ref_table
    /\ hist' = Append(hist, call)
    /\ UNCHANGED <<ledger_file, disk, reqs, lock>>

\* no request in flight, the lock free
Free == [writer |-> 0, readers |-> {}]

NoRequests == [id \in {} |-> [handler |-> "", pc |-> ""]]

NoFiles == [path \in {} |-> <<>>]

\* no server: no ledger file, no content file, no request, the lock free
NoServer ==
    /\ ledger_file = NoFile
    /\ disk = NoFiles
    /\ reqs = NoRequests
    /\ lock = Free

\* KnowledgeBase::new()
Init ==
    /\ node_table = <<>>
    /\ edge_table = EmptyTable
    /\ ref_table = EmptyTable
    /\ hist = <<>>
    /\ NoServer

insert_directory ==
    /\ Len(hist) < MaxOps
    /\ \E directory_path \in DirPaths :
          LET r == InsertDirectory(CurKb, directory_path)
          IN  Becomes(r.kb, Call("insert_directory", [directory_path |-> directory_path], r.ret))

insert_node ==
    /\ Len(hist) < MaxOps
    /\ \E content \in NodeContents, filename \in NodeFilenames :
          LET r == InsertNode(CurKb, content, filename)
          IN  Becomes(r.kb, Call("insert_node", [content |-> content, filename |-> filename], r.ret))

\* insert_markdown on inputs of the given sets; the parent index is that of
\* a directory node, as at every call site
Ingest(texts, filenames, reference_lists) ==
    \E markdown_content \in texts, filename \in filenames, parent_idx \in DirIndices(node_table), reference_nodes \in reference_lists, version \in Versions, tag \in Tags :
        LET r == InsertMarkdown(CurKb, markdown_content, filename, parent_idx, reference_nodes, version, tag)
        IN  Becomes(r.kb, Call("insert_markdown", [markdown_content |-> markdown_content, filename |-> filename, parent_idx |-> parent_idx, reference_nodes |-> reference_nodes, version |-> version, tag |-> tag], r.ret))

insert_markdown ==
    /\ Len(hist) < MaxOps
    /\ Ingest(Texts, Filenames, ReferenceLists)

Next == insert_directory \/ insert_node \/ insert_markdown

Spec == Init /\ [][Next]_vars

----------------------------------------------------------------------------
(* Successive revisions of one document                                    *)

\* let mut kb = KnowledgeBase::new(); kb.insert_directory("docs")
InitRevisions ==
    LET r == InsertDirectory(Kb(<<>>, EmptyTable, EmptyTable), <<"d", "o", "c", "s">>)
    IN  /\ node_table = r.kb.node_table
        /\ edge_table = r.kb.edge_table
        /\ ref_table = r.kb.ref_table
        /\ hist = <<Call("insert_directory", [directory_path |-> <<"d", "o", "c", "s">>], r.ret)>>
        /\ NoServer

\* one more revision of file "f" is ingested under the directory
insert_revision ==
    /\ Len(hist) <= MaxRevisions
    /\ Ingest(DivergingTexts, {<<"f">>}, {<<>>})

SpecRevisions == InitRevisions /\ [][insert_revision]_vars

----------------------------------------------------------------------------
(* The queries over arbitrary tables                                       *)

\* the keys of an arbitrary table: every pair of 0..MaxIdx, and two edges
\* from index 0 to the indices 5 and 7
TableKeys == ((0..MaxIdx) \X (0..MaxIdx)) \cup {<<0, 5>>, <<0, 7>>}

TableVersions == {0, 1}

StartIndices == 0..MaxIdx

RECURSIVE SubsetsUpTo(_, _)
\* the subsets of S of at most n elements
SubsetsUpTo(S, n) ==
    IF n = 0 THEN {{}}
    ELSE LET smaller == SubsetsUpTo(S, n - 1)
         IN  smaller \cup {T \cup {x} : T \in smaller, x \in S}

\* any two tables of at most MaxEdges entries together
InitTables ==
    /\ node_table = <<>>
    /\ hist = <<>>
    /\ NoServer
    /\ \E S \in SubsetsUpTo(TableKeys, MaxEdges) :
          \E R \in SubsetsUpTo(TableKeys, MaxEdges - Cardinality(S)) :
             /\ edge_table \in [S -> {NewEdge(v, "e") : v \in TableVersions}]
             /\ ref_table \in [R -> {NewEdge(0, "r")}]

\* a query leaves the store as it is; the call is logged with its result
Answers(call) == hist' = Append(hist, call) /\ UNCHANGED <<node_table, edge_table, ref_table, ledger_file, disk, reqs, lock>>

traverse_latest_path ==
    /\ hist = <<>>
    /\ \E start_idx \in StartIndices :
          Answers(Call("traverse_latest_path", [start_idx |-> start_idx], TraverseLatestPath(CurKb, start_idx)))

find_contaminated_nodes ==
    /\ hist = <<>>
    /\ \E start_idx \in StartIndices :
          Answers(Call("find_contaminated_nodes", [start_idx |-> start_idx], FindContaminatedNodes(CurKb, start_idx)))

find_referenced_nodes ==
    /\ hist = <<>>
    /\ \E start_idx \in StartIndices :
          Answers(Call("find_referenced_nodes", [start_idx |-> start_idx], FindReferencedNodes(CurKb, start_idx)))

NextQuery == traverse_latest_path \/ find_contaminated_nodes \/ find_referenced_nodes

SpecTables == InitTables /\ [][NextQuery]_vars

----------------------------------------------------------------------------
(* The HTTP server: state and helpers                                      *)

\* the characters of the model's paths in the order of their code points
Alphabet == <<".", "/", "a", "d", "e", "f", "g", "l", "m", "p", "x">>

\* the position of a character in Alphabet; 0 when it is not in it
Ord(c) == IF \E i \in 1..Len(Alphabet) : Alphabet[i] = c THEN CHOOSE i \in 1..Len(Alphabet) : Alphabet[i] = c ELSE 0

RECURSIVE StrLess(_, _)
\* String's Ord: s < t
StrLess(s, t) ==
    IF t = <<>> THEN FALSE
    ELSE IF s = <<>> THEN TRUE
    ELSE IF Ord(s[1]) # Ord(t[1]) THEN Ord(s[1]) < Ord(t[1])
    ELSE StrLess(Tail(s), Tail(t))

RECURSIVE InsertSorted(_, _)
InsertSorted(sorted, x) ==
    IF sorted = <<>> THEN <<x>>
    ELSE IF StrLess(x, sorted[1]) THEN <<x>> \o sorted
    ELSE <<sorted[1]>> \o InsertSorted(Tail(sorted), x)

RECURSIVE Sort(_)
\* files.sort()
Sort(files) == IF files = <<>> THEN <<>> ELSE InsertSorted(Sort(Tail(files)), files[1])

\* a listing that keeps the repetitions
KeepsRepeated(files) == files

\* files.dedup(): of consecutive equal elements the first is kept
Dedup(files) ==
    LET kept == Ascending({i \in 1..Len(files) : i = 1 \/ files[i] # files[i - 1]})
    IN  [k \in 1..Len(kept) |-> files[kept[k]]]

\* KnowledgeBase::list_files
ListFiles(kb) ==
    LET markers == SelectSeq(kb.node_table, LAMBDA node : StartsWith(node.content, FilePrefix))
        files == [i \in 1..Len(markers) |-> SubSeq(markers[i].content, Len(FilePrefix) + 1, Len(markers[i].content))]
    IN  Dedup(Sort(files))

\* the position of the last "/" of a path, 0 when it has none
LastSlash(filepath) == IF \E i \in 1..Len(filepath) : filepath[i] = "/" THEN CHOOSE i \in 1..Len(filepath) : filepath[i] = "/" /\ \A j \in (i + 1)..Len(filepath) : filepath[j] # "/" ELSE 0

\* Path::new(&filepath).parent().and_then(|p| p.to_str()).unwrap_or("") of a
\* relative path of components separated by "/"
DirPath(filepath) == SubSeq(filepath, 1, LastSlash(filepath) - 1)

\* ledger.node_indices.iter().filter_map(|idx| kb.nodes().get_index(*idx).cloned())
ResolveLedger(nt, node_indices) ==
    LET held == SelectSeq(node_indices, LAMBDA idx : idx < Len(nt))
    IN  [i \in 1..Len(held) |-> nt[held[i] + 1]]

\* the ledger GET starts from: the one in the file, or Ledger::new() when
\* the file is absent or does not parse
LoadOrNew(file) == IF file.kind = "json" THEN file.node_indices ELSE <<>>

\* a lock that lets a reader in whoever holds it
CanReadAlways(l) == TRUE

\* RwLock::read() returns when no writer holds the lock
CanRead(l) == l.writer = 0

\* RwLock::write() returns when no one holds the lock
CanWrite(l) == l.writer = 0 /\ l.readers = {}

\* a request as the router hands it to its handler
Request(handler, filepath, content) == [handler |-> handler, filepath |-> filepath, content |-> content, pc |-> "start", text |-> <<>>, node_indices |-> <<>>, ledger |-> <<>>, reference_nodes |-> <<>>, parent_idx |-> 0, version |-> 0, node_count |-> 0, after |-> 0]

\* the id of the next request: one more than the requests accepted so far
NextId == Len(hist) + Cardinality(DOMAIN reqs) + 1

At(id, handler, pc) == id \in DOMAIN reqs /\ reqs[id].handler = handler /\ reqs[id].pc = pc

\* the handler returns: the response is logged and the request is gone
Responds(id, ret) ==
    /\ hist' = Append(hist, Call(reqs[id].handler, [filepath |-> reqs[id].filepath, content |-> reqs[id].content, id |-> id, after |-> reqs[id].after], ret))
    /\ reqs' = [i \in DOMAIN reqs \ {id} |-> reqs[i]]

\* the request goes on at pc with the locals given
Goes(id, locals) == reqs' = [reqs EXCEPT ![id] = locals @@ reqs[id]]

\* format!("version-{}", version)
VersionTag(version) == "version-" \o ToString(version)

\* fs::write: it succeeds, or it fails and leaves the file as it was
FsOutcomes == {TRUE, FALSE}

----------------------------------------------------------------------------
(* The HTTP server: GET /files/{path}, GET /files, DELETE /ledger          *)

\* let kb = state.kb.read().unwrap()
read_file_lock ==
    \E id \in DOMAIN reqs :
        /\ At(id, "read_file", "start")
        /\ CanRead(lock)
        /\ lock' = [lock EXCEPT !.readers = @ \cup {id}]
        /\ Goes(id, [pc |-> "read"])
        /\ UNCHANGED <<node_table, edge_table, ref_table, hist, ledger_file, disk>>

\* a handler whose read guard lives on after the read
read_file_kb_holding ==
    \E id \in DOMAIN reqs :
        /\ At(id, "read_file", "read")
        /\ LET r == ReadFile(CurKb, reqs[id].filepath)
           IN  IF ~r.found
               THEN /\ lock' = [lock EXCEPT !.readers = @ \ {id}]
                    /\ Responds(id, [status |-> "NOT_FOUND"])
               ELSE IF ~r.returns
               THEN /\ Goes(id, [pc |-> "never returns"])
                    /\ UNCHANGED <<lock, hist>>
               ELSE /\ Goes(id, [pc |-> "save", text |-> r.markdown, node_indices |-> r.node_indices])
                    /\ UNCHANGED <<lock, hist>>
        /\ UNCHANGED <<node_table, edge_table, ref_table, ledger_file, disk>>

\* a handler that looks the file marker up by inserting it
read_file_kb_inserting ==
    \E id \in DOMAIN reqs :
        /\ At(id, "read_file", "read")
        /\ LET r == ReadFile(CurKb, reqs[id].filepath)
           IN  IF ~r.found
               THEN /\ lock' = [lock EXCEPT !.readers = @ \ {id}]
                    /\ Responds(id, [status |-> "NOT_FOUND"])
               ELSE IF ~r.returns
               THEN /\ Goes(id, [pc |-> "never returns"])
                    /\ UNCHANGED <<lock, hist>>
               ELSE /\ lock' = [lock EXCEPT !.readers = @ \ {id}]
                    /\ Goes(id, [pc |-> "save", text |-> r.markdown, node_indices |-> r.node_indices])
                    /\ UNCHANGED hist
        /\ node_table' = IndexSetInsert(node_table, FileNode(reqs[id].filepath))
        /\ UNCHANGED <<edge_table, ref_table, ledger_file, disk>>

\* match kb.read_file(&filepath): None is answered NOT_FOUND; a traversal
\* that never returns leaves the request where it is, the read lock held
read_file_kb ==
    \E id \in DOMAIN reqs :
        /\ At(id, "read_file", "read")
        /\ LET r == ReadFile(CurKb, reqs[id].filepath)
           IN  IF ~r.found
               THEN /\ lock' = [lock EXCEPT !.readers = @ \ {id}]
                    /\ Responds(id, [status |-> "NOT_FOUND"])
               ELSE IF ~r.returns
               THEN /\ Goes(id, [pc |-> "never returns"])
                    /\ UNCHANGED <<lock, hist>>
               ELSE /\ lock' = [lock EXCEPT !.readers = @ \ {id}]
                    /\ Goes(id, [pc |-> "save", text |-> r.markdown, node_indices |-> r.node_indices])
                    /\ UNCHANGED hist
        /\ UNCHANGED <<node_table, edge_table, ref_table, ledger_file, disk>>

\* fs::create_dir_all(parent), fs::write(&file_path, &content)
read_file_save ==
    \E id \in DOMAIN reqs, ok \in FsOutcomes :
        /\ At(id, "read_file", "save")
        /\ IF ok
           THEN /\ disk' = [path \in DOMAIN disk \cup {reqs[id].filepath} |-> IF path = reqs[id].filepath THEN reqs[id].text ELSE disk[path]]
                /\ Goes(id, [pc |-> "load ledger"])
                /\ UNCHANGED hist
           ELSE /\ Responds(id, [status |-> "INTERNAL_SERVER_ERROR"])
                /\ UNCHANGED disk
        /\ UNCHANGED <<node_table, edge_table, ref_table, ledger_file, lock>>

\* a handler that gives up on a ledger file that does not parse
read_file_load_ledger_or_fail ==
    \E id \in DOMAIN reqs :
        /\ At(id, "read_file", "load ledger")
        /\ IF ledger_file.kind = "garbage"
           THEN Responds(id, [status |-> "INTERNAL_SERVER_ERROR"])
           ELSE Goes(id, [pc |-> "store ledger", ledger |-> LoadOrNew(ledger_file)]) /\ UNCHANGED hist
        /\ UNCHANGED <<node_table, edge_table, ref_table, ledger_file, disk, lock>>

\* let mut ledger = the one of the file, or Ledger::new()
read_file_load_ledger ==
    \E id \in DOMAIN reqs :
        /\ At(id, "read_file", "load ledger")
        /\ Goes(id, [pc |-> "store ledger", ledger |-> LoadOrNew(ledger_file)])
        /\ UNCHANGED <<node_table, edge_table, ref_table, hist, ledger_file, disk, lock>>

\* a handler that adds its indices to the ledger the file holds when it
\* writes, not to the one it loaded
read_file_store_ledger_atomically ==
    \E id \in DOMAIN reqs :
        /\ At(id, "read_file", "store ledger")
        /\ ledger_file' = LedgerJson(AddNodes(LoadOrNew(ledger_file), reqs[id].node_indices))
        /\ Responds(id, [status |-> "OK", content |-> reqs[id].text, node_indices |-> reqs[id].node_indices])
        /\ UNCHANGED <<node_table, edge_table, ref_table, disk, lock>>

\* ledger.add_nodes(node_indices); fs::write(&ledger_path, ledger_json)
read_file_store_ledger ==
    \E id \in DOMAIN reqs, ok \in FsOutcomes :
        /\ At(id, "read_file", "store ledger")
        /\ IF ok
           THEN /\ ledger_file' = LedgerJson(AddNodes(reqs[id].ledger, reqs[id].node_indices))
                /\ Responds(id, [status |-> "OK", content |-> reqs[id].text, node_indices |-> reqs[id].node_indices])
           ELSE /\ Responds(id, [status |-> "INTERNAL_SERVER_ERROR"])
                /\ UNCHANGED ledger_file
        /\ UNCHANGED <<node_table, edge_table, ref_table, disk, lock>>

\* a handler that empties the file instead of writing an empty ledger to it
clear_ledger_truncating ==
    \E id \in DOMAIN reqs :
        /\ At(id, "clear_ledger", "start")
        /\ ledger_file' = Garbage
        /\ Responds(id, [status |-> "OK"])
        /\ UNCHANGED <<node_table, edge_table, ref_table, disk, lock>>

\* the handler clear_ledger: fs::write(&ledger_path, the JSON of Ledger::new())
clear_ledger ==
    \E id \in DOMAIN reqs, ok \in FsOutcomes :
        /\ At(id, "clear_ledger", "start")
        /\ IF ok
           THEN /\ ledger_file' = LedgerJson(<<>>)
                /\ Responds(id, [status |-> "OK"])
           ELSE /\ Responds(id, [status |-> "INTERNAL_SERVER_ERROR"])
                /\ UNCHANGED ledger_file
        /\ UNCHANGED <<node_table, edge_table, ref_table, disk, lock>>

\* the handler list_files: let kb = state.kb.read().unwrap()
list_files_lock ==
    \E id \in DOMAIN reqs :
        /\ At(id, "list_files", "start")
        /\ CanRead(lock)
        /\ lock' = [lock EXCEPT !.readers = @ \cup {id}]
        /\ Goes(id, [pc |-> "list"])
        /\ UNCHANGED <<node_table, edge_table, ref_table, hist, ledger_file, disk>>

\* Json(kb.list_files())
list_files ==
    \E id \in DOMAIN reqs :
        /\ At(id, "list_files", "list")
        /\ lock' = [lock EXCEPT !.readers = @ \ {id}]
        /\ Responds(id, [status |-> "OK", files |-> ListFiles(CurKb)])
        /\ UNCHANGED <<node_table, edge_table, ref_table, ledger_file, disk>>

----------------------------------------------------------------------------
(* The HTTP server: POST /files/{path}                                     *)

\* a handler that takes a file that does not parse for an empty ledger, as
\* GET does
write_file_load_ledger_or_new ==
    \E id \in DOMAIN reqs :
        /\ At(id, "write_file", "start")
        /\ Goes(id, [pc |-> "lock read", ledger |-> LoadOrNew(ledger_file)])
        /\ UNCHANGED <<node_table, edge_table, ref_table, hist, ledger_file, disk, lock>>

\* fs::read_to_string(&ledger_path) and serde_json::from_str::<Ledger>: no
\* file gives no reference nodes, a file that does not parse is answered
\* INTERNAL_SERVER_ERROR
write_file_load_ledger ==
    \E id \in DOMAIN reqs :
        /\ At(id, "write_file", "start")
        /\ IF ledger_file.kind = "absent"
           THEN Goes(id, [pc |-> "lock write", reference_nodes |-> <<>>]) /\ UNCHANGED hist
           ELSE IF ledger_file.kind = "json"
           THEN Goes(id, [pc |-> "lock read", ledger |-> ledger_file.node_indices]) /\ UNCHANGED hist
           ELSE Responds(id, [status |-> "INTERNAL_SERVER_ERROR"])
        /\ UNCHANGED <<node_table, edge_table, ref_table, ledger_file, disk, lock>>

\* let kb = state.kb.read().unwrap()
write_file_lock_read ==
    \E id \in DOMAIN reqs :
        /\ At(id, "write_file", "lock read")
        /\ CanRead(lock)
        /\ lock' = [lock EXCEPT !.readers = @ \cup {id}]
        /\ Goes(id, [pc |-> "resolve"])
        /\ UNCHANGED <<node_table, edge_table, ref_table, hist, ledger_file, disk>>

\* the ledger's indices become the nodes at them; the read lock is dropped
write_file_resolve ==
    \E id \in DOMAIN reqs :
        /\ At(id, "write_file", "resolve")
        /\ lock' = [lock EXCEPT !.readers = @ \ {id}]
        /\ Goes(id, [pc |-> "lock write", reference_nodes |-> ResolveLedger(node_table, reqs[id].ledger)])
        /\ UNCHANGED <<node_table, edge_table, ref_table, hist, ledger_file, disk>>

\* let mut kb = state.kb.write().unwrap()
write_file_lock_write ==
    \E id \in DOMAIN reqs :
        /\ At(id, "write_file", "lock write")
        /\ CanWrite(lock)
        /\ lock' = [lock EXCEPT !.writer = id]
        /\ Goes(id, [pc |-> "insert_directory", node_count |-> Len(node_table)])
        /\ UNCHANGED <<node_table, edge_table, ref_table, hist, ledger_file, disk>>

\* a handler that stamps every ingestion with version 0
write_file_insert_directory_version_0 ==
    \E id \in DOMAIN reqs :
        /\ At(id, "write_file", "insert_directory")
        /\ LET dir_path == DirPath(reqs[id].filepath)
               r == InsertDirectory(CurKb, IF dir_path = <<>> THEN <<".">> ELSE dir_path)
           IN  /\ node_table' = r.kb.node_table
               /\ Goes(id, [pc |-> "insert_markdown", parent_idx |-> r.ret, version |-> 0])
        /\ UNCHANGED <<edge_table, ref_table, hist, ledger_file, disk, lock>>

\* kb.insert_directory(".") or (dir_path); let version = kb.edge_count()
write_file_insert_directory ==
    \E id \in DOMAIN reqs :
        /\ At(id, "write_file", "insert_directory")
        /\ LET dir_path == DirPath(reqs[id].filepath)
               r == InsertDirectory(CurKb, IF dir_path = <<>> THEN <<".">> ELSE dir_path)
           IN  /\ node_table' = r.kb.node_table
               /\ Goes(id, [pc |-> "insert_markdown", parent_idx |-> r.ret, version |-> EdgeCount(r.kb)])
        /\ UNCHANGED <<edge_table, ref_table, hist, ledger_file, disk, lock>>

\* kb.insert_markdown(..) as far as the file marker and its parent edge
write_file_marker ==
    \E id \in DOMAIN reqs :
        /\ At(id, "write_file", "insert_markdown")
        /\ LET req == reqs[id]
               r == InsertMarkdown(CurKb, <<>>, req.filepath, req.parent_idx, <<>>, req.version, VersionTag(req.version))
           IN  /\ node_table' = r.kb.node_table
               /\ edge_table' = r.kb.edge_table
        /\ Goes(id, [pc |-> "content"])
        /\ UNCHANGED <<ref_table, hist, ledger_file, disk, lock>>

\* a handler that empties the ledger once it has used it
write_file_content_consuming ==
    \E id \in DOMAIN reqs :
        /\ At(id, "write_file", "content")
        /\ LET req == reqs[id]
               r == InsertMarkdown(CurKb, req.content, req.filepath, req.parent_idx, req.reference_nodes, req.version, VersionTag(req.version))
           IN  /\ node_table' = r.kb.node_table
               /\ edge_table' = r.kb.edge_table
               /\ ref_table' = r.kb.ref_table
               /\ Responds(id, [status |-> "OK", file_idx |-> r.ret, reference_nodes |-> req.reference_nodes, version |-> req.version, created |-> req.node_count..(Len(r.kb.node_table) - 1)])
        /\ lock' = [lock EXCEPT !.writer = 0]
        /\ ledger_file' = LedgerJson(<<>>)
        /\ UNCHANGED disk

\* kb.insert_markdown(..) to its end; the write lock is dropped and the
\* index of the file marker is answered
write_file_content ==
    \E id \in DOMAIN reqs :
        /\ At(id, "write_file", "content")
        /\ LET req == reqs[id]
               r == InsertMarkdown(CurKb, req.content, req.filepath, req.parent_idx, req.reference_nodes, req.version, VersionTag(req.version))
           IN  /\ node_table' = r.kb.node_table
               /\ edge_table' = r.kb.edge_table
               /\ ref_table' = r.kb.ref_table
               /\ Responds(id, [status |-> "OK", file_idx |-> r.ret, reference_nodes |-> req.reference_nodes, version |-> req.version, created |-> req.node_count..(Len(r.kb.node_table) - 1)])
        /\ lock' = [lock EXCEPT !.writer = 0]
        /\ UNCHANGED <<ledger_file, disk>>

\* the block of write_file under the write lock, as one call: the graph
\* after insert_directory, edge_count and insert_markdown
WriteBlock(kb, filepath, content, reference_nodes) ==
    LET dir_path == DirPath(filepath)
        d == InsertDirectory(kb, IF dir_path = <<>> THEN <<".">> ELSE dir_path)
        version == EdgeCount(d.kb)
    IN  InsertMarkdown(d.kb, content, filepath, d.ret, reference_nodes, version, VersionTag(version)).kb

----------------------------------------------------------------------------
(* The HTTP server, its requests handled one after the other               *)

SeedPath == <<"e", "x", "a", "m", "p", "l", "e", ".", "m", "d">>

SeedText == <<"#", " ", "E", "x", "a", "m", "p", "l", "e", " ", "D", "o", "c", "u", "m", "e", "n", "t", "\n", "\n", "T", "h", "i", "s", " ", "i", "s", " ", "s", "o", "m", "e", " ", "e", "x", "a", "m", "p", "l", "e", " ", "c", "o", "n", "t", "e", "n", "t", ".">>

ServerPaths == {<<"f">>, <<"d", "/", "g">>}

ServerContents == {<<>>, <<"A">>, Join(<<<<"A">>, <<"B">>>>)} \cup MarkerTexts

\* the requests of the router: DELETE /ledger, GET /files, GET and POST
\* /files/*path
Requests ==
    {Request("clear_ledger", <<>>, <<>>), Request("list_files", <<>>, <<>>)}
        \cup {Request("read_file", filepath, <<>>) : filepath \in ServerPaths \cup {SeedPath}}
        \cup {Request("write_file", filepath, content) : filepath \in ServerPaths, content \in ServerContents}

\* the ledger file the server finds: none, one that does not parse, an empty
\* ledger, a ledger of an earlier run with an index the graph has and one it
\* has not
InitLedgerFiles == {NoFile, Garbage, LedgerJson(<<>>), LedgerJson(<<3, 9>>)}

\* main: kb.insert_directory("docs"); kb.insert_markdown(md1, "example.md", ..)
Seeded ==
    LET d == InsertDirectory(Kb(<<>>, EmptyTable, EmptyTable), <<"d", "o", "c", "s">>)
    IN  InsertMarkdown(d.kb, SeedText, SeedPath, d.ret, <<>>, 0, "version-0").kb

\* main: the graph seeded with docs/example.md, the state shared, no request
InitServer ==
    /\ node_table = Seeded.node_table
    /\ edge_table = Seeded.edge_table
    /\ ref_table = Seeded.ref_table
    /\ hist = <<>>
        /\ ledger_file \in InitLedgerFiles
        /\ disk = NoFiles
        /\ reqs = NoRequests
        /\ lock = Free

\* the router hands a request to its handler while fewer than limit are in
\* flight; the request keeps the number of answers given before it came
Accepts(requests, limit) ==
    /\ NextId <= MaxRequests
    /\ Cardinality(DOMAIN reqs) < limit
    /\ \E request \in requests : reqs' = (NextId :> [request EXCEPT !.after = Len(hist)]) @@ reqs
    /\ UNCHANGED <<node_table, edge_table, ref_table, hist, ledger_file, disk, lock>>

\* a client that sends its next request after the answer to the one before
accept_next == Accepts(Requests, 1)

Handles ==
    \/ read_file_lock \/ read_file_kb \/ read_file_save \/ read_file_load_ledger \/ read_file_store_ledger
    \/ clear_ledger
    \/ list_files_lock \/ list_files
    \/ write_file_load_ledger \/ write_file_lock_read \/ write_file_resolve \/ write_file_lock_write
    \/ write_file_insert_directory \/ write_file_marker \/ write_file_content

NextServer == accept_next \/ Handles

SpecServer == InitServer /\ [][NextServer]_vars

----------------------------------------------------------------------------
(* The HTTP server, its requests handled concurrently                      *)

\* the requests of concurrent clients: reads of the seeded file and of f,
\* a listing, a reset of the ledger, writes of f and of d/g
ConcurrentRequests ==
    {Request("clear_ledger", <<>>, <<>>), Request("list_files", <<>>, <<>>), Request("read_file", SeedPath, <<>>), Request("read_file", <<"f">>, <<>>), Request("write_file", <<"f">>, Join(<<<<"A">>, <<"B">>>>)), Request("write_file", <<"d", "/", "g">>, <<"A">>)}

\* a request is accepted while fewer than MaxClients are in flight
accept ==
    Accepts(ConcurrentRequests, MaxClients)

NextConcurrent == accept \/ Handles

SpecConcurrent == InitServer /\ [][NextConcurrent]_vars

----------------------------------------------------------------------------
(* The ledger on its own                                                   *)

LedgerIndices == {1, 2, 3}

\* the sequences over S of at most n elements
SeqsUpTo(S, n) == UNION {[1..k -> S] : k \in 0..n}

\* what one read reports: up to MaxRead indices, and the list 3, 1, 3, 2
ReadLists == SeqsUpTo(LedgerIndices, MaxRead) \cup {<<3, 1, 3, 2>>}

\* a Ledger as new or as deserialized: any list of at most MaxLedger indices
InitLedger ==
    /\ node_table = <<>>
    /\ edge_table = EmptyTable
    /\ ref_table = EmptyTable
    /\ hist = <<>>
    /\ ledger_file \in {LedgerJson(l) : l \in SeqsUpTo(LedgerIndices, MaxLedger)}
    /\ disk = NoFiles
    /\ reqs = NoRequests
    /\ lock = Free

\* ledger.add_nodes(nodes); the latest call is kept with the list before it
add_nodes ==
    \E nodes \in ReadLists :
        /\ ledger_file' = LedgerJson(AddNodes(ledger_file.node_indices, nodes))
        /\ hist' = <<Call("add_nodes", [node_indices |-> ledger_file.node_indices, nodes |-> nodes], <<>>)>>
        /\ UNCHANGED <<node_table, edge_table, ref_table, disk, reqs, lock>>

SpecLedger == InitLedger /\ [][add_nodes]_vars

----------------------------------------------------------------------------
(* Vocabulary of the properties                                            *)

LastCall == hist[Len(hist)]

IsIngest(call) == call.op = "insert_markdown"

\* the non-empty lines of a document
LinesOf(markdown_content) == NonEmpty(Split(markdown_content))

Distinct(seq) == \A i, j \in 1..Len(seq) : i # j => seq[i] # seq[j]

Range(seq) == {seq[i] : i \in 1..Len(seq)}

IsPrefix(s, t) == Len(s) <= Len(t) /\ \A i \in 1..Len(s) : t[i] = s[i]

\* the (content, filename) pairs a call hands to the node store
InsertedBy(call) ==
    IF call.op = "insert_directory" THEN {DirNode(call.args.directory_path)}
    ELSE IF call.op = "insert_node" THEN {NewNode(call.args.content, call.args.filename)}
    ELSE LET content == Range(ContentNodes(call.args.markdown_content, call.args.filename))
         IN  {FileNode(call.args.filename)} \cup content
                 \cup (IF content = {} THEN {} ELSE Range(call.args.reference_nodes))

\* the node a call returns the index of
ReturnedNode(call) ==
    IF call.op = "insert_directory" THEN DirNode(call.args.directory_path)
    ELSE IF call.op = "insert_node" THEN NewNode(call.args.content, call.args.filename)
    ELSE FileNode(call.args.filename)

----------------------------------------------------------------------------
(* C1: node identity                                                       *)

C1_Step ==
    LET call == hist'[Len(hist')]
        absent == {n \in InsertedBy(call) : IndexOf(node_table, n) = {}}
    IN  /\ Distinct(node_table')
        /\ Len(node_table') = Len(node_table) + Cardinality(absent)
        /\ \A n \in InsertedBy(call) : Cardinality(IndexOf(node_table', n)) = 1
        /\ call.op \in {"insert_node", "insert_directory"} =>
              /\ absent = {} => IndexOf(node_table, ReturnedNode(call)) = {call.ret}
              /\ absent # {} => call.ret = Len(node_table)

\* C1: in every step of insert_node, insert_directory and insert_markdown the
\* node store holds no (content, filename) pair at two indices; a pair that
\* is present is returned at its existing index with the node count
\* unchanged, and every absent pair adds exactly one node.
C1_IdempotentInsertion == [][C1_Step]_vars

\* a pair that was present has been inserted again, and a pair that was absent
C1_Witness ==
    /\ Len(hist) = 3
    /\ hist[1].op = "insert_node" /\ hist[2] = hist[1]
    /\ hist[3].op = "insert_node" /\ hist[3].ret = 1
    /\ Len(node_table) = 2

----------------------------------------------------------------------------
(* C2: append-only edge tables                                             *)

Preserved(tbl, tbl2) == \A k \in DOMAIN tbl : k \in DOMAIN tbl2 /\ tbl2[k] = tbl[k]

\* C2: in every step, every key of the structural and of the reference edge
\* table stays present with the version and tag it had.
C2_AppendOnlyEdges == [][Preserved(edge_table, edge_table') /\ Preserved(ref_table, ref_table')]_vars

\* two ingestions of one file under one parent with different version and
\* tag, in both tables; the entries carry the first ingestion's
C2_Witness ==
    /\ Len(hist) = 3
    /\ IsIngest(hist[2]) /\ IsIngest(hist[3])
    /\ hist[2].args.filename = hist[3].args.filename
    /\ hist[2].args.markdown_content = hist[3].args.markdown_content
    /\ LinesOf(hist[2].args.markdown_content) # <<>>
    /\ hist[2].args.reference_nodes = hist[3].args.reference_nodes
    /\ hist[2].args.version # hist[3].args.version
    /\ hist[2].args.tag # hist[3].args.tag
    /\ edge_table[<<hist[3].args.parent_idx, hist[3].ret>>] = NewEdge(hist[2].args.version, hist[2].args.tag)
    /\ ref_table # EmptyTable
    /\ \A k \in DOMAIN ref_table : ref_table[k] = NewEdge(hist[2].args.version, hist[2].args.tag)

----------------------------------------------------------------------------
(* C3: index assignment                                                    *)

C3_Step ==
    /\ IsPrefix(node_table, node_table')
    /\ \A i \in 1..Len(hist') : node_table'[hist'[i].ret + 1] = ReturnedNode(hist'[i])
    /\ LET call == hist'[Len(hist')]
       IN  IndexOf(node_table, ReturnedNode(call)) = {} => call.ret = Len(node_table)

\* C3: in every step the node table keeps every node at its index (no node
\* is removed, moved or renumbered), a node that is new gets the index equal
\* to the number of nodes inserted before it, and every index a call has
\* returned still names the node it was returned for.
C3_StableIndices == [][C3_Step]_vars

\* three calls created the nodes 0, 1 and 2 in this order
C3_Witness ==
    /\ Len(hist) = 3
    /\ \A i \in 1..3 : hist[i].ret = i - 1 /\ node_table[i] = ReturnedNode(hist[i])
    /\ Len(node_table) >= 3

----------------------------------------------------------------------------
(* C4: divergence preservation                                             *)

\* the index of a content line of a file
LineIdx(line, filename) == GetIndexOf(node_table, NewNode(line, filename))

\* the last two calls ingested, for one file, a,b,c and then a,b,d at a
\* higher version: three content lines each, pairwise distinct
Diverged ==
    /\ Len(hist) >= 2
    /\ IsIngest(hist[Len(hist) - 1]) /\ IsIngest(LastCall)
    /\ hist[Len(hist) - 1].args.filename = LastCall.args.filename
    /\ LastCall.args.version > hist[Len(hist) - 1].args.version
    /\ LET l1 == LinesOf(hist[Len(hist) - 1].args.markdown_content)
           l2 == LinesOf(LastCall.args.markdown_content)
       IN  /\ Len(l1) = 3 /\ Len(l2) = 3
           /\ l1[1] = l2[1] /\ l1[2] = l2[2] /\ l1[3] # l2[3]
           /\ Distinct(l1) /\ Distinct(l2)
           /\ FileNode(LastCall.args.filename).content \notin Range(l1) \cup Range(l2)

\* C4: when a document with lines a,b,c and then, for the same file at a
\* higher version, a document with lines a,b,d have been ingested, the
\* structural edges a->b, b->c and b->d are all present and
\* traverse_latest_path(a) returns [a, b, d].
C4_DivergencePreserved ==
    Diverged =>
        LET f == LastCall.args.filename
            l1 == LinesOf(hist[Len(hist) - 1].args.markdown_content)
            l2 == LinesOf(LastCall.args.markdown_content)
            a == LineIdx(l1[1], f)
            b == LineIdx(l1[2], f)
            c == LineIdx(l1[3], f)
            d == LineIdx(l2[3], f)
        IN  /\ {<<a, b>>, <<b, c>>, <<b, d>>} \subseteq DOMAIN edge_table
            /\ TraverseLatestPath(CurKb, a) = [returns |-> TRUE, path |-> <<a, b, d>>]

----------------------------------------------------------------------------
(* C5: the latest path                                                     *)

\* <<u, v>> is an edge of u of maximum version, and of the highest
\* destination among those of that version
IsLatestEdge(u, v) ==
    /\ <<u, v>> \in DOMAIN edge_table
    /\ \A k \in DOMAIN edge_table :
          k[1] = u =>
             \/ edge_table[k].version < edge_table[<<u, v>>].version
             \/ edge_table[k].version = edge_table[<<u, v>>].version /\ k[2] <= v

\* C5: for every structural edge table and start index, the sequence that
\* traverse_latest_path returns begins with the start index, every next
\* element is the destination of an edge of maximum version of the element
\* before it, the highest destination among the edges tied at that version,
\* and the last element has no outgoing structural edge.
C5_LatestPath ==
    \A n \in 1..Len(hist) :
        (hist[n].op = "traverse_latest_path" /\ hist[n].ret.returns) =>
            LET path == hist[n].ret.path
            IN  /\ path[1] = hist[n].args.start_idx
                /\ \A j \in 1..(Len(path) - 1) : IsLatestEdge(path[j], path[j + 1])
                /\ \A k \in DOMAIN edge_table : k[1] # path[Len(path)]

\* index 0 has edges to 5 and to 7 at one version, the maximum of its
\* edges, and the walk from 0 went to 7
C5_Witness ==
    /\ {<<0, 5>>, <<0, 7>>} \subseteq DOMAIN edge_table
    /\ edge_table[<<0, 5>>].version = edge_table[<<0, 7>>].version
    /\ \E k \in DOMAIN edge_table : k[1] = 0 /\ edge_table[k].version < edge_table[<<0, 7>>].version
    /\ Len(hist) = 1
    /\ hist[1].op = "traverse_latest_path"
    /\ hist[1].args.start_idx = 0
    /\ hist[1].ret = [returns |-> TRUE, path |-> <<0, 7>>]

----------------------------------------------------------------------------
(* C6: last write wins                                                     *)

\* read_file of the file of an ingestion gives back the document
ReadsBack(kb, call) ==
    LET f == call.args.filename
        lines == LinesOf(call.args.markdown_content)
        r == ReadFile(kb, f)
    IN  /\ r.found
        /\ r.returns
        /\ r.markdown = Join(lines)
        /\ r.node_indices = [i \in 1..Len(lines) |-> GetIndexOf(kb.node_table, NewNode(lines[i], f))]

C6_Step ==
    LET call == hist'[Len(hist')]
    IN  (IsIngest(call) /\ \A k \in DOMAIN edge_table : edge_table[k].version < call.args.version)
            => ReadsBack(Kb(node_table', edge_table', ref_table'), call)

\* C6: whenever a document is ingested for a file with a version greater
\* than every version in the structural edge table, read_file of that file
\* then returns the non-empty lines of the document joined by newline, with
\* the indices of the document's content nodes in document order.
C6_LastWriteWins == [][C6_Step]_vars

----------------------------------------------------------------------------
(* C7: round trip on a fresh store                                         *)

\* C7: after a document whose non-empty lines are pairwise distinct has been
\* ingested into a store that held nothing but directories, read_file of
\* its file returns those lines in order joined by newline.
C7_RoundTrip ==
    ( /\ hist # <<>>
      /\ IsIngest(LastCall)
      /\ \A i \in 1..(Len(hist) - 1) : hist[i].op = "insert_directory"
      /\ Distinct(LinesOf(LastCall.args.markdown_content)) )
        => ReadsBack(CurKb, LastCall)

----------------------------------------------------------------------------
(* C8: no structural cycle                                                 *)

Successors(keys, S) == {k[2] : k \in {q \in keys : q[1] \in S}}

RECURSIVE Reach(_, _)
\* the indices reached from those of S along the keys, S included
Reach(keys, S) ==
    LET next == S \cup Successors(keys, S)
    IN  IF next = S THEN S ELSE Reach(keys, next)

HasCycle(keys) == \E k \in keys : k[1] \in Reach(keys, {k[2]})

\* C8: after any sequence of ingestions under directory parents the
\* structural edge table has no cycle and no self-loop, and
\* traverse_latest_path from every node and read_file of every file return.
C8_NoStructuralCycle ==
    /\ ~HasCycle(DOMAIN edge_table)
    /\ \A i \in 0..(Len(node_table) - 1) : TraverseLatestPath(CurKb, i).returns
    /\ \A f \in Filenames : ReadFile(CurKb, f).returns

----------------------------------------------------------------------------
(* C9: the targets of reference edges                                      *)

C9_Step ==
    LET call == hist'[Len(hist')]
    IN  IsIngest(call) =>
            LET f == call.args.filename
                content == Range(ContentNodes(call.args.markdown_content, f))
                created == Len(node_table)..(Len(node_table') - 1)
                file_idx == GetIndexOf(node_table', FileNode(f))
                new_content == {GetIndexOf(node_table', n) : n \in content} \cap created
                refs == IF content = {} THEN {}
                        ELSE {GetIndexOf(node_table', n) : n \in Range(call.args.reference_nodes)}
                added == DOMAIN ref_table' \ DOMAIN ref_table
            IN  /\ \A k \in added : k[1] \in refs /\ k[2] \in created /\ k[2] # file_idx
                /\ \A r \in refs : \A n \in new_content \ {file_idx} : <<r, n>> \in DOMAIN ref_table'

\* C9: the reference edges an ingestion adds go from its reference nodes to
\* the content nodes the ingestion created, to all of them, and never to the
\* file marker or to a node the store already held.
C9_ReferencesOnlyToNewNodes == [][C9_Step]_vars

----------------------------------------------------------------------------
(* C10: forward contamination                                              *)

\* the position of the first element of out with a reference edge to out[j]
Discoverer(out, j) == CHOOSE i \in 1..Len(out) : <<out[i], out[j]>> \in DOMAIN ref_table /\ \A h \in 1..(i - 1) : <<out[h], out[j]>> \notin DOMAIN ref_table

\* out lists the closure of start over the reference edges in breadth-first
\* discovery order: start first, then every index after the indices that
\* were discovered from earlier elements, siblings in ascending order
IsBreadthFirstClosure(out, start) ==
    /\ out # <<>> /\ out[1] = start
    /\ Distinct(out)
    /\ Range(out) = Reach(DOMAIN ref_table, {start})
    /\ \A j \in 2..Len(out) : \E i \in 1..(j - 1) : <<out[i], out[j]>> \in DOMAIN ref_table
    /\ \A j \in 2..(Len(out) - 1) :
          \/ Discoverer(out, j) < Discoverer(out, j + 1)
          \/ Discoverer(out, j) = Discoverer(out, j + 1) /\ out[j] < out[j + 1]

\* C10: for every reference edge table and start index,
\* find_contaminated_nodes returns the indices reachable from the start over
\* reference edges, each once, the start first, in breadth-first discovery
\* order; structural edges are not followed: a structural successor y of a
\* node x that the start references is left out unless reference edges
\* reach it.
C10_ContaminatedClosure ==
    \A n \in 1..Len(hist) :
        hist[n].op = "find_contaminated_nodes" =>
            LET out == hist[n].ret
                start == hist[n].args.start_idx
            IN  /\ IsBreadthFirstClosure(out, start)
                /\ \A x, y \in 0..7 :
                      ( /\ <<start, x>> \in DOMAIN ref_table
                        /\ <<x, y>> \in DOMAIN edge_table
                        /\ y \notin Reach(DOMAIN ref_table, {start}) )
                          => x \in Range(out) /\ y \notin Range(out)

\* r references x, x references z, and x has the structural successor y:
\* the result from r is [r, x, z], without y
C10_Witness ==
    /\ Len(hist) = 1
    /\ hist[1].op = "find_contaminated_nodes"
    /\ \E x, y, z \in 0..7 :
          LET r == hist[1].args.start_idx
          IN  /\ Cardinality({r, x, y, z}) = 4
              /\ DOMAIN ref_table = {<<r, x>>, <<x, z>>}
              /\ DOMAIN edge_table = {<<x, y>>}
              /\ hist[1].ret = <<r, x, z>>

----------------------------------------------------------------------------
(* C11: Ledger.add_nodes                                                   *)

\* the elements of s at the positions where they occur first, in order
FirstOccurrences(s) ==
    LET firsts == {i \in 1..Len(s) : \A j \in 1..(i - 1) : s[j] # s[i]}
        pos == Ascending(firsts)
    IN  [k \in 1..Len(pos) |-> s[pos[k]]]

\* C11: after add_nodes(nodes) the ledger is the previous list followed by
\* the given indices with every index kept at its first occurrence only, in
\* the same relative order; it holds no index twice; recording 3,1,3,2 into
\* an empty ledger gives 3,1,2; and add_nodes of the same indices again
\* leaves it as it is.
C11_AddNodes ==
    (hist # <<>> /\ LastCall.op = "add_nodes") =>
        LET before == LastCall.args.node_indices
            nodes == LastCall.args.nodes
            after == ledger_file.node_indices
        IN  /\ after = FirstOccurrences(before \o nodes)
            /\ Distinct(after)
            /\ Range(after) = Range(before) \cup Range(nodes)
            /\ (before = <<>> /\ nodes = <<3, 1, 3, 2>>) => after = <<3, 1, 2>>
            /\ AddNodes(after, nodes) = after

\* 3,1,3,2 was recorded into an empty ledger
C11_Witness ==
    /\ hist # <<>> /\ LastCall.op = "add_nodes"
    /\ LastCall.args.node_indices = <<>>
    /\ LastCall.args.nodes = <<3, 1, 3, 2>>
    /\ ledger_file = LedgerJson(<<3, 1, 2>>)

----------------------------------------------------------------------------
(* C12: what the ingestion of a new file adds                              *)

\* the last call of the step ingested, with no reference nodes, a document
\* of pairwise distinct lines for a file whose marker was not in the store
IngestsNewFile ==
    LET call == hist'[Len(hist')]
    IN  /\ IsIngest(call)
        /\ IndexOf(node_table, FileNode(call.args.filename)) = {}
        /\ Distinct(LinesOf(call.args.markdown_content))
        /\ call.args.reference_nodes = <<>>

\* none of the document's lines is a node of the store or reads as the
\* marker of its file
LinesAreNew ==
    LET call == hist'[Len(hist')]
        lines == LinesOf(call.args.markdown_content)
    IN  \A i \in 1..Len(lines) :
            /\ IndexOf(node_table, NewNode(lines[i], call.args.filename)) = {}
            /\ NewNode(lines[i], call.args.filename) # FileNode(call.args.filename)

Added(k_nodes, k_edges) ==
    /\ Len(node_table') = Len(node_table) + k_nodes
    /\ Cardinality(DOMAIN edge_table') = Cardinality(DOMAIN edge_table) + k_edges

----------------------------------------------------------------------------
(* C13: re-ingestion                                                       *)

\* two ingestions of the same content for the same file under the same
\* parent with the same reference nodes, whatever their version and tag
SameDocument(c1, c2) ==
    /\ IsIngest(c1) /\ IsIngest(c2)
    /\ c1.args.markdown_content = c2.args.markdown_content
    /\ c1.args.filename = c2.args.filename
    /\ c1.args.parent_idx = c2.args.parent_idx
    /\ c1.args.reference_nodes = c2.args.reference_nodes

C13_Step ==
    (\E i \in 1..Len(hist) : SameDocument(hist[i], hist'[Len(hist')]))
        => /\ node_table' = node_table
           /\ edge_table' = edge_table
           /\ ref_table' = ref_table

\* C13: an insert_markdown call with the content, filename, parent and
\* reference nodes of an earlier call, at any version and tag, leaves the
\* node store, the structural edge table and the reference edge table as
\* they were.
C13_ReingestionIdempotent == [][C13_Step]_vars

\* a document of two lines with a reference node was ingested at version 0
\* and again at version 1 under another tag
C13_Witness ==
    /\ Len(hist) = 3
    /\ SameDocument(hist[2], hist[3])
    /\ hist[2].args.version = 0 /\ hist[3].args.version = 1
    /\ hist[2].args.tag = "version-0" /\ hist[3].args.tag = "version-1"
    /\ Len(LinesOf(hist[3].args.markdown_content)) = 2
    /\ hist[3].args.reference_nodes # <<>>
    /\ Cardinality(DOMAIN ref_table) >= 1
    /\ \A k \in DOMAIN edge_table : edge_table[k].version = 0

----------------------------------------------------------------------------
(* C14: the empty document                                                 *)

\* a text with no character other than the line separator
OnlyNewlines(text) == \A i \in 1..Len(text) : text[i] = NL

C14_Step ==
    LET call == hist'[Len(hist')]
    IN  (IsIngest(call) /\ OnlyNewlines(call.args.markdown_content)) =>
            LET marker == FileNode(call.args.filename)
            IN  /\ IndexOf(node_table', marker) = {call.ret}
                /\ node_table' = (IF IndexOf(node_table, marker) = {} THEN Append(node_table, marker) ELSE node_table)
                /\ DOMAIN edge_table' = DOMAIN edge_table \cup {<<call.args.parent_idx, call.ret>>}
                /\ Preserved(edge_table, edge_table')
                /\ ref_table' = ref_table

\* C14: an ingestion of a document with no non-empty line returns the index
\* of the file marker, adds the marker node if it was absent and the
\* parent -> file edge if it was absent, and nothing else: no content node,
\* no reference node and no reference edge, also when reference nodes are
\* supplied.
C14_EmptyDocument == [][C14_Step]_vars

\* a document of one line separator was ingested with a reference node that
\* the store does not hold: the store has the directory and the marker
C14_Witness ==
    /\ Len(hist) = 2
    /\ IsIngest(hist[2])
    /\ hist[2].args.markdown_content = <<NL>>
    /\ hist[2].args.reference_nodes = <<NewNode(<<"r">>, <<>>)>>
    /\ hist[2].ret = 1
    /\ node_table = <<DirNode(hist[1].args.directory_path), FileNode(hist[2].args.filename)>>
    /\ DOMAIN edge_table = {<<0, 1>>}
    /\ ref_table = EmptyTable

----------------------------------------------------------------------------
(* C15: the ledger feedback loop                                           *)

IsOk(call, handler) == call.op = handler /\ call.ret.status = "OK"

\* the answer i is a successful GET, the later answer j a successful POST,
\* and no DELETE /ledger was answered between them
ReadThenWritten(i, j) ==
    /\ i < j
    /\ IsOk(hist[i], "read_file")
    /\ IsOk(hist[j], "write_file")
    /\ \A k \in (i + 1)..(j - 1) : hist[k].op # "clear_ledger"

\* the content nodes among the nodes a POST created: those of its file
\* other than the file marker
CreatedContent(call) ==
    {n \in call.ret.created : node_table[n + 1].filename = call.args.filepath /\ node_table[n + 1] # FileNode(call.args.filepath)}

\* every node of from has a reference edge to every node of to, and its
\* contamination holds it
AllReference(from, to) ==
    \A r \in from, n \in to :
        /\ <<r, n>> \in DOMAIN ref_table
        /\ n \in Range(FindContaminatedNodes(CurKb, r))

\* C15 as stated: after a successful GET followed, with no DELETE /ledger
\* in between, by a POST, every index the GET reported to the ledger has a
\* reference edge to every node the POST created.
C15_LedgerFeedback ==
    \A i, j \in 1..Len(hist) :
        ReadThenWritten(i, j) => AllReference(Range(hist[i].ret.node_indices), hist[j].ret.created)

\* C15 as amended: ... to every content node the POST created, and
\* find_contaminated_nodes of each index the GET reported holds all of
\* those content nodes.
C15_LedgerFeedbackToContent ==
    \A i, j \in 1..Len(hist) :
        ReadThenWritten(i, j) => AllReference(Range(hist[i].ret.node_indices), CreatedContent(hist[j]))

\* the seeded file was read, its two lines went to the ledger, and a POST
\* of two new lines followed: four reference edges
C15_Witness ==
    /\ Len(hist) = 2
    /\ ReadThenWritten(1, 2)
    /\ hist[1].ret.node_indices = <<2, 3>>
    /\ Cardinality(CreatedContent(hist[2])) = 2
    /\ DOMAIN ref_table = {2, 3} \X CreatedContent(hist[2])

----------------------------------------------------------------------------
(* C16: DELETE /ledger                                                     *)

\* the step answers a request
Answered == hist' # hist

\* a DELETE /ledger was answered OK and no GET /files/{path} since
ClearedAndNotRead == \E i \in 1..Len(hist) : IsOk(hist[i], "clear_ledger") /\ \A k \in (i + 1)..Len(hist) : hist[k].op # "read_file"

C16_Step ==
    LET call == hist'[Len(hist')]
    IN  /\ (Answered /\ call.op = "clear_ledger") =>
              /\ UNCHANGED <<node_table, edge_table, ref_table>>
              /\ call.ret.status = "OK" => ledger_file' = LedgerJson(<<>>)
        /\ (Answered /\ call.op = "write_file" /\ ClearedAndNotRead) =>
              /\ call.ret.status = "OK"
              /\ call.ret.reference_nodes = <<>>
              /\ ref_table' = ref_table
              /\ \A n \in call.ret.created : node_table'[n + 1].filename \in {call.args.filepath, <<>>}

\* C16: a DELETE /ledger leaves the node store and both edge tables as they
\* are and, answered OK, leaves the empty ledger in the file; a POST after
\* it with no GET /files/{path} in between succeeds with no reference
\* node, adds no reference edge, and creates no node other than its
\* directory, its file marker and its content nodes.
C16_ClearLedger == [][C16_Step]_vars

\* the ledger was cleared, and the POST of two lines that followed added no
\* reference edge
C16_Witness ==
    /\ Len(hist) = 2
    /\ IsOk(hist[1], "clear_ledger")
    /\ IsOk(hist[2], "write_file")
    /\ ledger_file = LedgerJson(<<>>)
    /\ Cardinality(CreatedContent(hist[2])) = 2
    /\ ref_table = EmptyTable

----------------------------------------------------------------------------
(* C17: GET of an unknown path                                             *)

\* request id is a GET of a path the node store holds no file marker for
ReadsUnknown(id) == reqs[id].handler = "read_file" /\ IndexOf(node_table, FileNode(reqs[id].filepath)) = {}

C17_Step ==
    \A id \in DOMAIN reqs :
        ReadsUnknown(id) =>
            /\ UNCHANGED <<node_table, edge_table, ref_table, ledger_file, disk>>
            /\ id \notin DOMAIN reqs' => hist'[Len(hist')].ret = [status |-> "NOT_FOUND"]

\* C17: while a GET /files/{path} of a path with no file marker is handled,
\* no step changes the node store, the edge tables, the ledger file or the
\* content files, and its answer is NOT_FOUND.
C17_UnknownPath == [][C17_Step]_vars

\* GET /files/f was answered NOT_FOUND on the seeded graph; the ledger file
\* of the earlier run is as it was and no content file was written
C17_Witness ==
    /\ Len(hist) = 1
    /\ hist[1].op = "read_file"
    /\ hist[1].args.filepath = <<"f">>
    /\ hist[1].ret.status = "NOT_FOUND"
    /\ ledger_file = LedgerJson(<<3, 9>>)
    /\ disk = NoFiles
    /\ reqs = NoRequests

----------------------------------------------------------------------------
(* C18: POST with a ledger file that does not parse                        *)

C18_Step ==
    \A id \in DOMAIN reqs :
        (reqs[id].handler = "write_file" /\ reqs[id].pc = "start" /\ ledger_file = Garbage) =>
            /\ UNCHANGED <<node_table, edge_table, ref_table, ledger_file, disk, lock>>
            /\ id \notin DOMAIN reqs'
            /\ hist' = Append(hist, Call("write_file", [filepath |-> reqs[id].filepath, content |-> reqs[id].content, id |-> id, after |-> reqs[id].after], [status |-> "INTERNAL_SERVER_ERROR"]))

\* C18: a POST /files/{path} that finds a ledger file that is not the JSON
\* of a ledger is answered INTERNAL_SERVER_ERROR in its first step, with the
\* node store and both edge tables unchanged: no directory node, no file
\* marker and no edge is added, and the lock is not taken.
C18_MalformedLedger == [][C18_Step]_vars

\* a POST of two lines for f was refused: the graph is the seeded one
C18_Witness ==
    /\ Len(hist) = 1
    /\ hist[1].op = "write_file"
    /\ hist[1].args.content = Join(<<<<"A">>, <<"B">>>>)
    /\ hist[1].ret.status = "INTERNAL_SERVER_ERROR"
    /\ ledger_file = Garbage
    /\ Len(node_table) = 4
    /\ Cardinality(DOMAIN edge_table) = 3
    /\ ref_table = EmptyTable

----------------------------------------------------------------------------
(* C19: ingestion is atomic                                                *)

\* the positions of a handler inside its read-lock block
ReadPcs == {"read", "list", "resolve", "never returns"}

\* the positions of write_file inside its write-lock block
WritePcs == {"insert_directory", "insert_markdown", "content"}

RECURSIVE Replay(_, _, _)
\* the graph after the ingestions of calls[i..], one whole write block
\* after the other, from the graph kb
Replay(kb, calls, i) ==
    IF i > Len(calls) THEN kb
    ELSE IF IsOk(calls[i], "write_file")
    THEN Replay(WriteBlock(kb, calls[i].args.filepath, calls[i].args.content, calls[i].ret.reference_nodes), calls, i + 1)
    ELSE Replay(kb, calls, i + 1)

\* C19: under every interleaving of the steps of concurrent requests, while
\* a request is between two steps of its ingestion no other request is
\* inside a block that reads or writes the graph; and whenever no ingestion
\* is under way, so whenever a request looks at the graph and at the end,
\* the graph is the one that the ingestions answered so far produce when
\* they are executed whole, one at a time, in the order of their answers.
C19_AtomicIngestion ==
    /\ \A id \in DOMAIN reqs :
          reqs[id].pc \in WritePcs =>
              /\ lock.writer = id
              /\ \A other \in DOMAIN reqs \ {id} : reqs[other].pc \notin ReadPcs \cup WritePcs
    /\ (\A id \in DOMAIN reqs : reqs[id].pc \notin WritePcs) => CurKb = Replay(Seeded, hist, 1)

\* after a write of d/g, a write of f has inserted the file marker and not
\* yet its first line, and a read of f is waiting for the lock
C19_Witness ==
    /\ Len(hist) = 1
    /\ IsOk(hist[1], "write_file")
    /\ \E w, r \in DOMAIN reqs :
          /\ reqs[w].handler = "write_file" /\ reqs[w].pc = "content" /\ reqs[w].filepath = <<"f">>
          /\ reqs[r].handler = "read_file" /\ reqs[r].pc = "start" /\ reqs[r].filepath = <<"f">>
          /\ lock = [writer |-> w, readers |-> {}]
    /\ IndexOf(node_table, FileNode(<<"f">>)) # {}
    /\ \A k \in DOMAIN edge_table : k[1] \notin IndexOf(node_table, FileNode(<<"f">>))

----------------------------------------------------------------------------
(* C20: the listing                                                        *)

\* files is in ascending order with no name twice, and holds exactly the
\* names that have a file marker in kb, those read_file finds
ListsTheFiles(files, kb) ==
    /\ \A i \in 1..(Len(files) - 1) : StrLess(files[i], files[i + 1])
    /\ \A i \in 1..Len(files) : ReadFile(kb, files[i]).found
    /\ \A filepath \in ServerPaths \cup {SeedPath} : ReadFile(kb, filepath).found => filepath \in Range(files)

C20_Step ==
    LET call == hist'[Len(hist')]
        kb == Kb(node_table', edge_table', ref_table')
    IN  /\ (Answered /\ call.op = "list_files") => ListsTheFiles(call.ret.files, kb)
        /\ (Answered /\ IsOk(call, "write_file")) =>
              /\ ListsTheFiles(ListFiles(kb), kb)
              /\ call.args.filepath \in Range(ListFiles(kb))
              /\ ReadFile(kb, call.args.filepath).found
              /\ ReadFile(kb, call.args.filepath).returns

\* C20: the answer of GET /files is, in ascending order and without
\* duplicates, exactly the filenames that have a file marker, those for
\* which read_file does not give None; after a POST /files/{P} answered OK
\* the listing holds P and read_file of P returns the document.
C20_ListFiles == [][C20_Step]_vars

----------------------------------------------------------------------------
(* C21: the ledger update of GET is not atomic                             *)

\* every request so far came after the answer to the one before it
Sequential(calls) == \A k \in 1..Len(calls) : calls[k].args.id = k /\ calls[k].args.after = k - 1

\* answer i is a successful GET and no DELETE /ledger was answered after it
ReadAndKept(calls, i) == IsOk(calls[i], "read_file") /\ \A k \in (i + 1)..Len(calls) : calls[k].op # "clear_ledger"

C21_Step ==
    /\ \A id \in DOMAIN reqs :
          (At(id, "read_file", "store ledger") /\ id \notin DOMAIN reqs' /\ hist'[Len(hist')].ret.status = "OK") =>
              Range(ledger_file'.node_indices) = Range(reqs[id].ledger) \cup Range(reqs[id].node_indices)
    /\ (Sequential(hist') /\ reqs' = NoRequests) =>
          \A i \in 1..Len(hist') : ReadAndKept(hist', i) => Range(hist'[i].ret.node_indices) \subseteq Range(ledger_file'.node_indices)

\* C21: the ledger a GET /files/{path} writes holds the indices of the
\* ledger it loaded and its own, whatever the file holds by then, so a
\* write of a concurrent GET in between is overwritten; when the requests
\* run one after the other, the ledger holds the indices of every
\* successful GET since the last DELETE /ledger.
C21_LedgerUpdateNotAtomic == [][C21_Step]_vars

\* two GETs that overlapped are both answered OK with indices of their
\* own, and the ledger lacks those of the one answered first
C21_Witness ==
    /\ reqs = NoRequests
    /\ \E i, j \in 1..Len(hist) :
          /\ i < j
          /\ ReadAndKept(hist, i) /\ ReadAndKept(hist, j)
          /\ hist[j].args.after < i
          /\ hist[i].ret.node_indices # <<>>
          /\ Range(hist[i].ret.node_indices) \cap Range(ledger_file.node_indices) = {}
          /\ Range(hist[j].ret.node_indices) \subseteq Range(ledger_file.node_indices)
          /\ hist[j].ret.node_indices # <<>>

----------------------------------------------------------------------------
(* C22: the versions POST assigns are fresh                                *)

\* every structural edge of et has a version below the number of edges
VersionsBelowCount(et) == \A key \in DOMAIN et : et[key].version < Cardinality(DOMAIN et)

\* the structural edges before the ingestion answered last
EdgesBefore(calls) == Replay(Seeded, SubSeq(calls, 1, Len(calls) - 1), 1).edge_table

C22_Step ==
    /\ VersionsBelowCount(edge_table')
    /\ (Answered /\ IsOk(hist'[Len(hist')], "write_file")) =>
          LET before == EdgesBefore(hist')
          IN  \A key \in DOMAIN edge_table' \ DOMAIN before :
                 \A old \in DOMAIN before : edge_table'[key].version > before[old].version

\* C22: in the seeded graph and after every step of the server, every
\* structural edge has a version smaller than the number of structural
\* edges, and every structural edge a POST has added has a version greater
\* than that of every structural edge there was before that POST.
C22_FreshVersions == VersionsBelowCount(Seeded.edge_table) /\ [][C22_Step]_vars

\* two POSTs were answered, each added structural edges, the second with a
\* version greater than the first
C22_Witness ==
    \E i, j \in 1..Len(hist) :
        /\ i < j
        /\ IsOk(hist[i], "write_file") /\ IsOk(hist[j], "write_file")
        /\ hist[i].ret.version < hist[j].ret.version
        /\ \E k, l \in DOMAIN edge_table :
              edge_table[k].version = hist[i].ret.version /\ edge_table[l].version = hist[j].ret.version

----------------------------------------------------------------------------
(* C23: reference data never influences document reconstruction            *)

RECURSIVE WithoutReferences(_, _, _)
\* the graph after the successful POSTs of calls from the i-th on, each
\* ingestion given no reference node
WithoutReferences(kb, calls, i) ==
    IF i > Len(calls) THEN kb
    ELSE IF IsOk(calls[i], "write_file")
    THEN WithoutReferences(WriteBlock(kb, calls[i].args.filepath, calls[i].args.content, <<>>), calls, i + 1)
    ELSE WithoutReferences(kb, calls, i + 1)

\* what GET answers for filepath on the graph kb
AnswerOn(kb, filepath) ==
    LET r == ReadFile(kb, filepath)
    IN  IF ~r.found THEN [status |-> "NOT_FOUND"]
        ELSE [status |-> "OK", content |-> r.markdown, node_indices |-> r.node_indices]

\* the answer i is one GET gave from the graph
ReadFromGraph(i) == hist[i].op = "read_file" /\ hist[i].ret.status \in {"OK", "NOT_FOUND"}

\* C23: whatever reference nodes the ledger gave to the ingestions, outside
\* an ingestion the structural edge table is the one the same POSTs leave
\* when no ingestion is given a reference node, and every GET answers (or
\* never returns) as read_file does on that graph: two runs of the same
\* requests that differ in the ledger agree on both.
C23_ReferencesDoNotInfluence ==
    /\ (\A id \in DOMAIN reqs : reqs[id].pc \notin WritePcs) =>
          edge_table = WithoutReferences(Seeded, hist, 1).edge_table
    /\ \A i \in 1..Len(hist) :
          ReadFromGraph(i) => hist[i].ret = AnswerOn(WithoutReferences(Seeded, SubSeq(hist, 1, i - 1), 1), hist[i].args.filepath)
    /\ \A id \in DOMAIN reqs :
          At(id, "read_file", "never returns") => ~ReadFile(WithoutReferences(Seeded, hist, 1), reqs[id].filepath).returns

\* a POST was given reference nodes and left reference edges, and a later
\* GET of the file it wrote was answered with its content
C23_Witness ==
    \E i, j \in 1..Len(hist) :
        /\ i < j
        /\ IsOk(hist[i], "write_file") /\ hist[i].ret.reference_nodes # <<>>
        /\ IsOk(hist[j], "read_file") /\ hist[j].args.filepath = hist[i].args.filepath
        /\ hist[j].ret.node_indices # <<>>
        /\ DOMAIN ref_table # {}

----------------------------------------------------------------------------
(* C24: GET takes an absent or unparsable ledger for an empty one          *)

\* there is no ledger file, or one that does not parse
NoLedger == ledger_file.kind \in {"absent", "garbage"}

C24_Step ==
    \A id \in DOMAIN reqs :
        (reqs[id].handler = "read_file" /\ NoLedger) =>
            /\ reqs[id].pc = "load ledger" => (id \in DOMAIN reqs' /\ reqs'[id].pc = "store ledger")
            /\ (reqs[id].pc = "store ledger" /\ id \notin DOMAIN reqs') =>
                  LET ret == hist'[Len(hist')].ret
                  IN  \/ /\ ret.status = "OK"
                         /\ ledger_file' = LedgerJson(FirstOccurrences(ReadFile(CurKb, reqs[id].filepath).node_indices))
                      \/ /\ ret.status = "INTERNAL_SERVER_ERROR"
                         /\ ledger_file' = ledger_file

\* C24: a GET /files/{path} that finds no ledger file, or one that does not
\* parse, is not answered with an error for it: it goes on to write the
\* ledger, and unless that write fails it is answered OK and the ledger
\* file then holds exactly the content-node indices of this read, each once,
\* in the order of the traversal.
C24_MissingLedgerIsEmpty == [][C24_Step]_vars

\* a GET of a file with content has loaded a ledger file that does not
\* parse, and is about to write the ledger
C24_Witness ==
    \E id \in DOMAIN reqs :
        /\ At(id, "read_file", "store ledger")
        /\ ledger_file = Garbage
        /\ reqs[id].ledger = <<>> /\ reqs[id].node_indices # <<>>

----------------------------------------------------------------------------
(* C25: the structural edges of an ingested document                       *)

\* the index the store has for node
StoreIndex(node) == CHOOSE i \in 0..(Len(node_table) - 1) : node_table[i + 1] = node

\* the edges of the chain of a document: parent to marker, marker to first
\* line, each line to the next
ChainOf(call) ==
    LET lines == LinesOf(call.args.markdown_content)
        marker == StoreIndex(FileNode(call.args.filename))
        at(i) == StoreIndex(NewNode(lines[i], call.args.filename))
    IN  {<<call.args.parent_idx, marker>>, <<marker, at(1)>>} \cup {<<at(i), at(i + 1)>> : i \in 1..(Len(lines) - 1)}

\* C25: after insert_markdown returns for a document with non-empty lines
\* l1..ln and filename F, whatever the store held before, the structural
\* edge table has the keys (parent, marker of F), (marker of F, node of l1)
\* and (node of li, node of li+1) for every i < n, each endpoint the one
\* index the store has for that node.
C25_ChainEdges ==
    (hist # <<>> /\ IsIngest(LastCall) /\ LinesOf(LastCall.args.markdown_content) # <<>>) =>
        ChainOf(LastCall) \subseteq DOMAIN edge_table

\* a document of two lines was ingested into a store that already held
\* both lines as nodes of that file and a structural edge out of its marker
C25_Witness ==
    /\ Len(hist) >= 2 /\ IsIngest(LastCall) /\ IsIngest(hist[Len(hist) - 1])
    /\ LastCall.args.filename = hist[Len(hist) - 1].args.filename
    /\ Len(LinesOf(LastCall.args.markdown_content)) = 2
    /\ Range(LinesOf(LastCall.args.markdown_content)) \subseteq Range(LinesOf(hist[Len(hist) - 1].args.markdown_content))
    /\ LastCall.args.markdown_content # hist[Len(hist) - 1].args.markdown_content
    /\ Cardinality(ChainOf(LastCall)) = 3

----------------------------------------------------------------------------
(* C26: the provenance searches end and list no index twice                *)

IsSearch(call) == call.op \in {"find_contaminated_nodes", "find_referenced_nodes"}

\* the indices the reference edge table mentions
ReferenceIndices == {key[1] : key \in DOMAIN ref_table} \cup {key[2] : key \in DOMAIN ref_table}

\* C26: on every reference edge table, those with self-loops and cycles
\* included, find_contaminated_nodes and find_referenced_nodes return, and
\* what they return starts with the start index, holds no index twice and
\* holds only the start index and indices of the table, so the search loop
\* runs at most once per index.
C26_SearchesEnd ==
    (hist # <<>> /\ IsSearch(LastCall)) =>
        /\ Distinct(LastCall.ret)
        /\ LastCall.ret # <<>> /\ LastCall.ret[1] = LastCall.args.start_idx
        /\ Range(LastCall.ret) \subseteq {LastCall.args.start_idx} \cup ReferenceIndices

\* a search was answered from a start index with a self-loop that lies on a
\* cycle with another index, and the answer holds both
C26_Witness ==
    /\ hist # <<>> /\ IsSearch(LastCall)
    /\ LET s == LastCall.args.start_idx
       IN  /\ <<s, s>> \in DOMAIN ref_table
           /\ \E t \in ReferenceIndices : t # s /\ {<<s, t>>, <<t, s>>} \subseteq DOMAIN ref_table /\ Range(LastCall.ret) = {s, t}

----------------------------------------------------------------------------
(* C27: the two provenance searches are dual                               *)

\* the indices a search can be asked about or can answer
SearchIndices == StartIndices \cup ReferenceIndices

\* C27: on every graph, y is in find_contaminated_nodes(x) exactly when x is
\* in find_referenced_nodes(y): an answer of find_contaminated_nodes(x)
\* holds exactly the indices whose find_referenced_nodes holds x, and an
\* answer of find_referenced_nodes(y) exactly the indices whose
\* find_contaminated_nodes holds y.
C27_Duality ==
    /\ (hist # <<>> /\ LastCall.op = "find_contaminated_nodes") =>
          \A y \in SearchIndices :
             y \in Range(LastCall.ret) <=> LastCall.args.start_idx \in Range(FindReferencedNodes(CurKb, y))
    /\ (hist # <<>> /\ LastCall.op = "find_referenced_nodes") =>
          \A x \in SearchIndices :
             x \in Range(LastCall.ret) <=> LastCall.args.start_idx \in Range(FindContaminatedNodes(CurKb, x))

\* find_referenced_nodes was answered with the start index, an index one
\* reference edge before it and one two edges before it, and the table
\* has an index it did not answer
C27_Witness ==
    /\ hist # <<>> /\ LastCall.op = "find_referenced_nodes"
    /\ Len(LastCall.ret) = 3
    /\ <<LastCall.ret[2], LastCall.ret[1]>> \in DOMAIN ref_table
    /\ <<LastCall.ret[3], LastCall.ret[2]>> \in DOMAIN ref_table
    /\ <<LastCall.ret[3], LastCall.ret[1]>> \notin DOMAIN ref_table
    /\ ReferenceIndices \ Range(LastCall.ret) # {}

----------------------------------------------------------------------------
(* C28: queries leave the graph as it is                                   *)

\* the step is one of the request id
StepOf(id) == id \in DOMAIN reqs /\ (id \notin DOMAIN reqs' \/ reqs'[id] # reqs[id])

GraphUnchanged == UNCHANGED <<node_table, edge_table, ref_table>>

C28_Step ==
    /\ \A id \in DOMAIN reqs :
          (StepOf(id) /\ reqs[id].handler \in {"read_file", "list_files"}) => GraphUnchanged
    /\ ~GraphUnchanged => \E id \in DOMAIN reqs : StepOf(id) /\ reqs[id].handler = "write_file"

\* C28: no step of a GET /files or of a GET /files/{path}, with the
\* list_files, read_file and traverse_latest_path it calls, changes the node
\* store, the structural edge table or the reference edge table; every step
\* that changes one of them is a step of a POST /files/{path}.
C28_QueriesArePure == [][C28_Step]_vars

\* after a POST that changed the graph, a GET of a file with content and a
\* GET /files were answered OK
C28_Witness ==
    \E i, j, k \in 1..Len(hist) :
        /\ i < j /\ i < k
        /\ IsOk(hist[i], "write_file") /\ Len(node_table) > Len(Seeded.node_table)
        /\ IsOk(hist[j], "read_file") /\ hist[j].ret.node_indices # <<>>
        /\ IsOk(hist[k], "list_files")

----------------------------------------------------------------------------
(* C29: the graph lock is not held during file or ledger I/O               *)

\* the request id holds the graph lock, as a reader or as the writer
Holds(id) == id \in lock.readers \/ lock.writer = id

\* the request id is about to read or write a file: the content file or
\* the ledger of GET, the ledger of POST and of DELETE /ledger
DoesIo(id) ==
    \/ reqs[id].handler = "read_file" /\ reqs[id].pc \in {"save", "load ledger", "store ledger"}
    \/ reqs[id].handler \in {"write_file", "clear_ledger"} /\ reqs[id].pc = "start"

\* the request id is about to ask for the graph lock
Waits(id) ==
    \/ reqs[id].handler \in {"read_file", "list_files"} /\ reqs[id].pc = "start"
    \/ reqs[id].handler = "write_file" /\ reqs[id].pc \in {"lock read", "lock write"}

\* C29: a request that is about to do file or ledger I/O does not hold the
\* graph lock, and neither does a request that is about to ask for it: the
\* lock is held by exactly the requests inside a read or write block, so GET
\* has released it before it writes the content file and the ledger, and
\* POST has loaded the ledger before it takes it.
C29_NoLockDuringIo ==
    /\ \A id \in DOMAIN reqs :
          /\ DoesIo(id) => ~Holds(id)
          /\ Waits(id) => ~Holds(id)
          /\ Holds(id) <=> reqs[id].pc \in ReadPcs \cup WritePcs
    /\ lock.readers \subseteq DOMAIN reqs
    /\ lock.writer \in {0} \cup DOMAIN reqs

\* a GET has read its file and is about to write the ledger while a POST
\* holds the write lock, its file marker inserted
C29_Witness ==
    \E id, other \in DOMAIN reqs :
        /\ At(id, "read_file", "store ledger")
        /\ At(other, "write_file", "content")
        /\ lock.writer = other

----------------------------------------------------------------------------
(* C30: every edge joins nodes of the store                                *)

\* both endpoints of every key of tbl are indices of the node store
JoinsNodes(tbl) == \A key \in DOMAIN tbl : key[1] < Len(node_table) /\ key[2] < Len(node_table)

\* C30: in the seeded graph and after every step of every HTTP operation,
\* every key of the structural edge table and of the reference edge table
\* has both endpoints smaller than the node count.
C30_EdgesJoinNodes == JoinsNodes(edge_table) /\ JoinsNodes(ref_table)

\* no request is in flight, POSTs have added more than two nodes to the
\* seeded graph and left a reference edge, and a structural edge ends at
\* the newest node
C30_Witness ==
    /\ reqs = NoRequests
    /\ Len(node_table) > Len(Seeded.node_table) + 2
    /\ DOMAIN ref_table # {}
    /\ \E key \in DOMAIN edge_table : key[2] = Len(node_table) - 1

----------------------------------------------------------------------------
(* C31: files are isolated from each other                                 *)

\* the paths a file can have been ingested under
IngestedPaths == ServerPaths \cup {SeedPath}

\* the nodes read_file(filename) goes through after the file marker
NodesRead(filename) ==
    LET r == ReadFile(CurKb, filename)
    IN  [i \in 1..Len(r.node_indices) |-> node_table[r.node_indices[i] + 1]]

\* C31: after any sequence of POST ingestions, and at every step of one,
\* every node read_file(F) goes through after the file marker of F has the
\* filename F, and so does the destination of every structural edge whose
\* source has the filename F: a line of another file, of the same text or
\* not, is never part of the reconstruction of F.
C31_FilesIsolated ==
    /\ \A filename \in IngestedPaths :
          \A i \in 1..Len(NodesRead(filename)) : NodesRead(filename)[i].filename = filename
    /\ \A key \in DOMAIN edge_table :
          node_table[key[1] + 1].filename # <<>> => node_table[key[2] + 1].filename = node_table[key[1] + 1].filename

\* two files were ingested with a line of the same text, and read_file of
\* one goes through that line and a second one
C31_Witness ==
    /\ reqs = NoRequests
    /\ \E F, G \in IngestedPaths :
          /\ F # G
          /\ Len(NodesRead(F)) = 2
          /\ Len(NodesRead(G)) >= 1
          /\ NodesRead(F)[1].content = NodesRead(G)[1].content

----------------------------------------------------------------------------
(* C32: the ledger only grows between two DELETE /ledger                   *)

\* the list of the ledger file, empty when there is none or it does not parse
LedgerList(file) == IF file.kind = "json" THEN file.node_indices ELSE <<>>

C32_Step ==
    LET call == hist'[Len(hist')]
    IN  /\ Distinct(LedgerList(ledger_file'))
        /\ ~(Answered /\ call.op = "clear_ledger") => IsPrefix(LedgerList(ledger_file), LedgerList(ledger_file'))
        /\ (Answered /\ IsOk(call, "read_file")) =>
              /\ ledger_file'.kind = "json"
              /\ Range(call.ret.node_indices) \subseteq Range(LedgerList(ledger_file'))

\* C32: with one request handled after the other, no step but the answer
\* of a DELETE /ledger takes an index from the ledger file or moves one:
\* the list before is a prefix of the list after; after a GET answered OK
\* the list holds every index of that read; and the list never holds an
\* index twice.
C32_LedgerGrows == Distinct(LedgerList(ledger_file)) /\ [][C32_Step]_vars

\* a GET was answered OK with an index the ledger held before it, which
\* has kept its place in front of an index this GET did not read, and with
\* an index that is now the last of the list
C32_Witness ==
    /\ hist # <<>> /\ IsOk(LastCall, "read_file")
    /\ LET list == LedgerList(ledger_file)
           read == Range(LastCall.ret.node_indices)
       IN  /\ Len(list) >= 3
           /\ list[Len(list)] \in read
           /\ \E k \in 1..(Len(list) - 2) : list[k] \in read /\ list[k + 1] \notin read

----------------------------------------------------------------------------
(* C33: POST reads the ledger and leaves it as it is                       *)

\* no DELETE /ledger was answered OK after answer i and before answer j
NotClearedBetween(calls, i, j) == \A k \in (i + 1)..(j - 1) : ~IsOk(calls[k], "clear_ledger")

C33_Step ==
    /\ \A id \in DOMAIN reqs :
          (StepOf(id) /\ reqs[id].handler = "write_file") => ledger_file' = ledger_file
    /\ \A i, j \in 1..Len(hist') :
          (i < j /\ IsOk(hist'[i], "write_file") /\ IsOk(hist'[j], "write_file") /\ NotClearedBetween(hist', i, j)) =>
              Range(hist'[i].ret.reference_nodes) \subseteq Range(hist'[j].ret.reference_nodes)

\* C33: no step of a POST /files/{path}, answered OK or with an error,
\* changes the ledger file; and with one request handled after the other,
\* the reference nodes of a POST are reference nodes of every later POST
\* until a DELETE /ledger is answered OK.
C33_PostKeepsLedger == [][C33_Step]_vars

\* two POSTs were answered OK with no request between them, each was given
\* reference nodes, and the ledger file still holds indices
C33_Witness ==
    \E j \in 2..Len(hist) :
        /\ IsOk(hist[j - 1], "write_file") /\ IsOk(hist[j], "write_file")
        /\ hist[j - 1].ret.reference_nodes # <<>>
        /\ hist[j].ret.reference_nodes # <<>>
        /\ LedgerList(ledger_file) # <<>>

=============================================================================
